---- MODULE Spec2Model ----
(***************************************************************************)
(* docktop: the monitoring-and-control pipeline of src/src/main.rs and the *)
(* Action Executor of src/src/action.rs, as a state machine.               *)
(*                                                                         *)
(* Every tokio task is a process with a program counter; every mpsc        *)
(* channel is a bounded FIFO whose `send(..).await` is enabled only while  *)
(* the channel has room (a full channel suspends the sender); the watch    *)
(* channel is a value with a version.                                      *)
(***************************************************************************)
EXTENDS Integers, Sequences, FiniteSets, TLC

\* ---------------------------------------------------------------------
\* Program constants (channel capacities, main.rs:84-91)
\* ---------------------------------------------------------------------
ContainersCap == 10
LogsCap == 100
DetailsCap == 10
ActionCap == 10
ResultCap == 10
JanitorCap == 10
RefreshCap == 1

\* ---------------------------------------------------------------------
\* Bounds of the model
\* ---------------------------------------------------------------------
\* commands the operator submits in the mixed run
MaxCmds == 2
\* commands the operator submits in the key-repeat run (one key held down)
FloodCmds == 13
\* items of a CleanJanitor command (the progress line comes every 5th item)
MaxItems == 5
\* chunks of an image pull stream
MaxChunks == 2
\* lines of a `docker build` child that are forwarded from one of its pipes
MaxBuildLines == 1
\* navigation keys the operator presses
MaxNav == 1
\* frames the daemon has ready on one log connection
MaxLines == 1
\* fetch cycles the Detail Task starts
MaxFetches == 3
\* length of the item lists of CleanJanitor that are tried in every order
MaxListLen == 3
Containers == <<"X", "Y">>

VARIABLES
    \* channels
    containersQ, logQ, actionQ, resultQ, janitorQ, refreshQ,
    \* Task 1: Container Lister
    discPc, discWake, listed,
    \* Task 4: Docker Events Listener
    evPc, evLast, unserved,
    \* Task 5: Action Executor
    wpc, cur, wres, count, chunks, last_status, fwd,
    \* Dashboard Loop
    dashPc, pending, issued, operator, appContainers, selected_index,
    \* the rest of the dashboard's App: the detail samples on display, the
    \* log buffer and the wizard
    app,
    \* Focus Register (watch channel) and Task 3: Log Streamer
    focus, logSeen, last_id, current_log_task, subs,
    \* Task 2: Details Fetcher and its channel
    detailsQ, detPc, detSeen, elapsed, detFetch, fetches,
    \* history of the result channel: the command of the last message sent,
    \* and the commands whose final result was sent, in sending order
    sentLast, finals,
    \* history of the command in progress: the calls it has made to the
    \* daemon, to child processes and to the file system, with their outcomes
    calls,
    \* the argument and the result of a parsing function of the program
    arg, ret

chanVars == <<containersQ, logQ, actionQ, resultQ, janitorQ, refreshQ>>
discVars == <<discPc, discWake, listed>>
evVars == <<evPc, evLast, unserved>>
workerVars == <<wpc, cur, wres, count, chunks, last_status, fwd, sentLast, finals,
               calls>>
dashVars == <<dashPc, pending, issued, operator>>
appVars == <<appContainers, selected_index, focus, app>>
logVars == <<logSeen, last_id, current_log_task, subs>>
detVars == <<detailsQ, detPc, detSeen, elapsed, detFetch, fetches>>
fnVars == <<arg, ret>>
vars == <<chanVars, discVars, evVars, workerVars, dashVars, appVars, logVars,
          detVars, fnVars>>

None == "none"

NoCmd == [idx |-> 0, kind |-> "none", items |-> <<>>, override |-> FALSE]

\* the Detail Task between two fetches
NoFetch == [target |-> None, stats |-> "idle", inspect |-> "idle"]

\* ---------------------------------------------------------------------
\* Task 1: Container Lister (main.rs:98-116)
\* ---------------------------------------------------------------------
\* the Dashboard Loop has left its loop (main.rs:638-643) and main returns:
\* the receivers it owns, rx_containers among them, are dropped
ReceiversDropped == dashPc = "quit"

DiscInitPc_NoInitialFetch == "select"

DiscAfterFailedList_Break == "done"

\* main.rs:100,110  `if let Ok(containers) = ...list_containers().await`
\* with an Err: the body is skipped and the task goes to its select
DiscAfterFailedList == "select"

\* where the task starts: the initial fetch precedes the loop
DiscInitPc == "initial_list"

\* main.rs:100  client.list_containers().await, before the loop
DiscInitialList ==
    /\ discPc = "initial_list"
    /\ listed' = TRUE
    /\ \E ok \in BOOLEAN :
        discPc' = IF ok THEN "initial_send" ELSE DiscAfterFailedList
    /\ UNCHANGED <<discWake, unserved>>
    /\ UNCHANGED <<chanVars, evPc, evLast, workerVars, dashVars>>
    /\ UNCHANGED <<appVars, logVars, detVars, fnVars>>

\* main.rs:101  let _ = tx_containers.send(containers).await: the result
\* of the send is dropped, so a closed channel only loses the snapshot
DiscInitialSend ==
    /\ discPc = "initial_send"
    /\ IF ReceiversDropped
       THEN UNCHANGED containersQ
       ELSE /\ Len(containersQ) < ContainersCap
            /\ \E containers \in operator.snapshots :
                   containersQ' = Append(containersQ, containers)
    /\ discPc' = "select"
    /\ UNCHANGED <<discWake, listed>>
    /\ UNCHANGED <<logQ, actionQ, resultQ, janitorQ, refreshQ>>
    /\ UNCHANGED <<evVars, workerVars, dashVars>>
    /\ UNCHANGED <<appVars, logVars, detVars, fnVars>>

\* main.rs:106  select! branch: sleep(10s) elapsed; the list call starts
\* (a run may bound the snapshots that wait for a tick when the timer fires)
DiscTimer ==
    /\ discPc = "select"
    /\ Len(containersQ) < operator.backlog
    /\ discPc' = "list"
    /\ discWake' = "timer"
    /\ unserved' = FALSE
    /\ UNCHANGED <<listed, chanVars, evPc, evLast, workerVars, dashVars>>
    /\ UNCHANGED <<appVars, logVars, detVars, fnVars>>

\* main.rs:107  select! branch: rx_refresh.recv(); the list call starts
DiscRecvRefresh ==
    /\ discPc = "select"
    /\ refreshQ > 0
    /\ refreshQ' = refreshQ - 1
    /\ discPc' = "list"
    /\ discWake' = "refresh"
    /\ unserved' = FALSE
    /\ UNCHANGED <<listed, containersQ, logQ, actionQ, resultQ, janitorQ>>
    /\ UNCHANGED <<evPc, evLast, workerVars, dashVars>>
    /\ UNCHANGED <<appVars, logVars, detVars, fnVars>>

\* main.rs:110  client.list_containers().await returns
DiscList ==
    /\ discPc = "list"
    /\ listed' = TRUE
    /\ \E ok \in BOOLEAN : discPc' = IF ok THEN "send" ELSE DiscAfterFailedList
    /\ UNCHANGED <<discWake, unserved>>
    /\ UNCHANGED <<chanVars, evPc, evLast, workerVars, dashVars>>
    /\ UNCHANGED <<appVars, logVars, detVars, fnVars>>

\* main.rs:111  tx_containers.send(containers).await with a live receiver
DiscSend ==
    /\ discPc = "send"
    /\ ~ReceiversDropped
    /\ Len(containersQ) < ContainersCap
    /\ \E containers \in operator.snapshots :
           containersQ' = Append(containersQ, containers)
    /\ discPc' = "select"
    /\ UNCHANGED <<discWake, listed>>
    /\ UNCHANGED <<logQ, actionQ, resultQ, janitorQ, refreshQ>>
    /\ UNCHANGED <<evVars, workerVars, dashVars>>
    /\ UNCHANGED <<appVars, logVars, detVars, fnVars>>

\* main.rs:111-113  the send finds the channel closed: `break`, the task ends
\* and its rx_refresh is dropped
DiscSendClosed ==
    /\ discPc = "send"
    /\ ReceiversDropped
    /\ discPc' = "done"
    /\ UNCHANGED <<discWake, listed>>
    /\ UNCHANGED <<chanVars, evVars, workerVars, dashVars>>
    /\ UNCHANGED <<appVars, logVars, detVars, fnVars>>

\* ---------------------------------------------------------------------
\* Task 4: Docker Events Listener (main.rs:222-240)
\* ---------------------------------------------------------------------
EvFailures == {"open_err", "eof", "read_err"}

EvAfterFailure_Return == "done"

\* where the task goes after a failed open, a closed stream or a read error:
\* it leaves the inner loop and reaches the retry delay (main.rs:238)
EvAfterFailure == "backoff"

\* main.rs:224  get_events_stream().await (docker.rs:233-253)
EvOpen ==
    /\ evPc = "open"
    /\ \E o \in {"open_ok", "open_err"} :
        /\ evLast' = o
        /\ evPc' = IF o = "open_ok" THEN "read" ELSE EvAfterFailure
    /\ UNCHANGED <<unserved, chanVars, discVars, workerVars, dashVars>>
    /\ UNCHANGED <<appVars, logVars, detVars, fnVars>>

\* main.rs:227-234  stream.read(&mut buffer).await
EvRead ==
    /\ evPc = "read"
    /\ \E o \in {"data", "eof", "read_err"} :
        /\ evLast' = o
        /\ evPc' = IF o = "data" THEN "send" ELSE EvAfterFailure
        /\ unserved' = IF o = "data" THEN TRUE ELSE unserved
    /\ UNCHANGED <<chanVars, discVars, workerVars, dashVars>>
    /\ UNCHANGED <<appVars, logVars, detVars, fnVars>>

\* the Refresh channel accepts a send only while it has room: Sender::send
\* on a full mpsc channel suspends the caller until a slot is free
RefreshHasRoom == refreshQ < RefreshCap

EvSend_DropTrigger ==
    /\ evPc = "send"
    /\ evPc' = "read"
    /\ UNCHANGED <<evLast, unserved, chanVars, discVars, workerVars, dashVars>>
    /\ UNCHANGED <<appVars, logVars, detVars, fnVars>>

\* main.rs:231  let _ = tx_refresh_clone.send(()).await; with the lister
\* gone the send returns an error at once and the trigger is lost
EvSend ==
    /\ evPc = "send"
    /\ IF discPc = "done"
       THEN UNCHANGED refreshQ
       ELSE /\ RefreshHasRoom
            /\ refreshQ' = refreshQ + 1
    /\ evPc' = "read"
    /\ UNCHANGED <<evLast, unserved>>
    /\ UNCHANGED <<containersQ, logQ, actionQ, resultQ, janitorQ>>
    /\ UNCHANGED <<discVars, workerVars, dashVars>>
    /\ UNCHANGED <<appVars, logVars, detVars, fnVars>>

\* main.rs:238  tokio::time::sleep(5s).await, then the outer loop repeats
EvBackoff ==
    /\ evPc = "backoff"
    /\ evPc' = "open"
    /\ UNCHANGED <<evLast, unserved, chanVars, discVars, workerVars, dashVars>>
    /\ UNCHANGED <<appVars, logVars, detVars, fnVars>>

\* ---------------------------------------------------------------------
\* Task 5: Action Executor (action.rs:40-524, run_action_loop)
\* ---------------------------------------------------------------------
Kinds == {"Start", "Stop", "Restart", "Create", "Build", "ComposeUp",
          "Replace", "ScanJanitor", "CleanJanitor", "Delete",
          "RefreshContainers"}

\* the `status progress` text of a pull chunk (action.rs:177-179)
Statuses == {"Downloading", "Extracting"}

\* the labels at which the worker sends a progress string and the label of
\* the statement that follows the send
ProgressLabels ==
    {"scan_progress", "clean_progress", "create_pulling",
     "create_pull_progress", "create_creating", "create_starting",
     "build_progress", "build_ok_progress", "build_running",
     "compose_progress", "replace_stopping", "replace_removing",
     "replace_pulling", "replace_creating", "replace_starting",
     "delete_removing"}

AfterProgress(l) ==
    CASE l = "scan_progress" -> "scan_images"
      [] l = "clean_progress" ->
            IF count < Len(cur.items) THEN "clean_delete" ELSE "final"
      [] l = "create_pulling" -> "create_pull"
      [] l = "create_pull_progress" -> "create_pull"
      [] l = "create_creating" -> "create_create"
      [] l = "create_starting" -> "create_start"
      [] l = "build_progress" -> "build_spawn"
      [] l = "build_ok_progress" -> "build_running"
      [] l = "build_running" -> "build_run"
      [] l = "compose_progress" -> "compose_run"
      [] l = "replace_stopping" -> "replace_stop"
      [] l = "replace_removing" -> "replace_remove"
      [] l = "replace_pulling" -> "replace_pull"
      [] l = "replace_creating" -> "replace_create"
      [] l = "replace_starting" -> "replace_start"
      [] l = "delete_removing" -> "delete_remove"

\* the labels at which the worker awaits a daemon call or a child process,
\* with the outcomes of the call: "ok", "err" (the call returned Err) and
\* "fail" (the child ran and exited with a failure status)
CallOutcomes(l) ==
    IF l \in {"build_wait", "build_run", "compose_run"}
    THEN {"ok", "fail", "err"} ELSE {"ok", "err"}

CallLabels ==
    {"scan_images", "scan_volumes", "scan_containers",
     "start_call", "stop_call", "restart_call",
     "create_create", "create_start",
     "build_wait", "build_run", "compose_run",
     "replace_stop", "replace_remove", "replace_pull", "replace_create",
     "replace_start", "delete_remove"}

Goto(l) == [pc |-> l, res |-> ""]
Result(r) == [pc |-> "final", res |-> r]

\* what the match arm does with the outcome of the call: the next statement,
\* or the value of the arm (the final result string)
CallTable(l, o) ==
    CASE l = "scan_images" -> Goto("scan_volumes")
      [] l = "scan_volumes" -> Goto("scan_containers")
      [] l = "scan_containers" -> Goto("scan_publish")
      [] l = "start_call" ->
            IF o = "ok" THEN Result("Started container")
            ELSE Result("Failed to start")
      [] l = "stop_call" ->
            IF o = "ok" THEN Result("Stopped container")
            ELSE Result("Failed to stop")
      [] l = "restart_call" ->
            IF o = "ok" THEN Result("Restarted container")
            ELSE Result("Failed to restart")
      [] l = "create_create" ->
            IF o = "ok" THEN Goto("create_starting")
            ELSE Result("Failed to create")
      [] l = "create_start" ->
            IF o = "ok" THEN Result("Started new container")
            ELSE Result("Failed to start")
      [] l = "build_wait" ->
            IF o = "ok" THEN Goto("build_ok_progress")
            ELSE IF o = "fail" THEN Result("Build Failed. Check Logs.")
            ELSE Result("Failed to wait for build")
      [] l = "build_run" ->
            IF o = "ok" THEN Result("Built and started")
            ELSE IF o = "fail" THEN Result("Built but failed to run")
            ELSE Result("Built but failed to execute run")
      [] l = "compose_run" ->
            IF o = "ok" THEN Result("Compose Up Successful")
            ELSE IF o = "fail" THEN Result("Compose Failed")
            ELSE Result("Failed to run compose")
      [] l = "replace_stop" -> Goto("replace_removing")
      [] l = "replace_remove" -> Goto("replace_pulling")
      [] l = "replace_pull" -> Goto("replace_creating")
      [] l = "replace_create" ->
            IF o = "ok" THEN Goto("replace_starting")
            ELSE Result("Failed to create")
      [] l = "replace_start" ->
            IF o = "ok" THEN Result("Replaced container")
            ELSE Result("Failed to start")
      [] l = "delete_remove" ->
            IF o = "ok" THEN Result("Removed container")
            ELSE Result("Failed to remove")

AfterCall_ErrorSkipsResult(l, o) ==
    IF o = "err" /\ CallTable(l, o).pc = "final"
    THEN [pc |-> "recv", res |-> ""] ELSE CallTable(l, o)

AfterCall_StopFailureAborts(l, o) ==
    IF l \in {"replace_stop", "replace_remove"} /\ o = "err"
    THEN Result("Failed to stop") ELSE CallTable(l, o)

\* every arm of the match yields a string: a failed call yields "Failed ..."
AfterCall(l, o) == CallTable(l, o)

FailureResults ==
    {"Failed to start", "Failed to stop", "Failed to restart",
     "Failed to create", "Build Failed. Check Logs.",
     "Failed to wait for build", "Built but failed to run",
     "Built but failed to execute run", "Failed to spawn docker build",
     "Compose Failed", "Failed to run compose", "Failed to remove"}

\* the first statement of the match arm of a command
FirstLabel(c) ==
    CASE c.kind = "RefreshContainers" -> Goto("refresh_send")
      [] c.kind = "ScanJanitor" -> Goto("scan_progress")
      [] c.kind = "CleanJanitor" ->
            IF c.items = <<>> THEN Result("Janitor finished")
            ELSE Goto("clean_delete")
      [] c.kind = "Start" -> Goto("start_call")
      [] c.kind = "Stop" -> Goto("stop_call")
      [] c.kind = "Restart" -> Goto("restart_call")
      [] c.kind = "Create" -> Goto("create_pulling")
      [] c.kind = "Build" -> Goto("build_progress")
      [] c.kind = "ComposeUp" -> Goto("compose_progress")
      [] c.kind = "Replace" -> Goto("replace_stopping")
      [] c.kind = "Delete" -> Goto("delete_removing")

Dequeue_Newest(q) == [cmd |-> q[Len(q)], rest |-> SubSeq(q, 1, Len(q) - 1)]

\* rx_action.recv(): the oldest command of the queue
Dequeue(q) == [cmd |-> Head(q), rest |-> Tail(q)]

ResultHasRoom == Len(resultQ) < ResultCap

\* action.rs:49  while let Some(action) = rx_action.recv().await
WorkerRecv ==
    /\ wpc = "recv"
    /\ actionQ # <<>>
    /\ LET d == Dequeue(actionQ) IN
        /\ actionQ' = d.rest
        /\ cur' = d.cmd
        /\ wpc' = FirstLabel(d.cmd).pc
        /\ wres' = FirstLabel(d.cmd).res
    /\ count' = 0 /\ chunks' = 0 /\ last_status' = ""
    /\ calls' = <<>>
    /\ UNCHANGED <<fwd, sentLast, finals>>
    /\ UNCHANGED <<containersQ, logQ, resultQ, janitorQ, refreshQ>>
    /\ UNCHANGED <<discVars, evVars, dashVars>>
    /\ UNCHANGED <<appVars, logVars, detVars, fnVars>>

\* let _ = tx_action_result.send(<progress string>).await
WorkerProgress ==
    /\ wpc \in ProgressLabels
    /\ ResultHasRoom
    /\ resultQ' = Append(resultQ,
            [cmd |-> cur.idx, final |-> FALSE,
             text |-> IF wpc = "create_pull_progress" THEN last_status ELSE wpc])
    /\ sentLast' = cur.idx
    /\ wpc' = AfterProgress(wpc)
    /\ UNCHANGED <<cur, wres, count, chunks, last_status, fwd, finals, calls>>
    /\ UNCHANGED <<containersQ, logQ, actionQ, janitorQ, refreshQ>>
    /\ UNCHANGED <<discVars, evVars, dashVars>>
    /\ UNCHANGED <<appVars, logVars, detVars, fnVars>>

Called(op, o) == [op |-> op, o |-> o]

\* app.rs:15-22  JanitorItem: what is deleted, its kind and its check mark
JanitorItem(id, kind, selected) ==
    [id |-> id, kind |-> kind, selected |-> selected]

\* action.rs:60-120  the scan's list calls in their order, with the kind of
\* the items each adds and the check mark the items come with
ScanLabels == {"scan_images", "scan_volumes", "scan_containers"}

ScanKind(l) ==
    CASE l = "scan_images" -> "Image"
      [] l = "scan_volumes" -> "Volume"
      [] l = "scan_containers" -> "Container"

Preselected(kind) == kind # "Volume"

\* items.push(JanitorItem {..}) for each of the n entries a list call found
Found(items, l, n) ==
    items \o [i \in 1..n |->
                JanitorItem(Len(items) + i, ScanKind(l),
                            Preselected(ScanKind(l)))]

\* the history is kept in the runs whose operator asks for it
Record(h, new) == IF operator.trace THEN h \o new ELSE h

Cleanup_NotOnLaunchError(l, o, c) ==
    IF l = "compose_run" /\ c.override /\ o # "err"
    THEN <<Called("remove_file", "ok")>> ELSE <<>>

\* action.rs:401-417  both arms of `match output` of ComposeUp start with
\* `if let Some(ovr) = override_path { let _ = std::fs::remove_file(ovr); }`
\* before they yield the result string
Cleanup(l, o, c) ==
    IF l = "compose_run" /\ c.override
    THEN <<Called("remove_file", "ok")>> ELSE <<>>

\* a daemon call or a child process of the command returns; a list call of
\* the scan that succeeds adds what it found to the scan's `items`
WorkerCall ==
    /\ wpc \in CallLabels
    /\ \E o \in IF wpc \in ScanLabels /\ ~operator.faulty THEN {"ok"}
               ELSE CallOutcomes(wpc) :
       \E n \in IF wpc \in ScanLabels /\ o = "ok" THEN operator.found ELSE {0} :
        /\ wpc' = AfterCall(wpc, o).pc
        /\ wres' = AfterCall(wpc, o).res
        /\ calls' = Record(calls, <<Called(wpc, o)>> \o Cleanup(wpc, o, cur))
        /\ cur' = IF n > 0 THEN [cur EXCEPT !.items = Found(@, wpc, n)]
                  ELSE cur
    /\ UNCHANGED <<count, chunks, last_status, fwd, sentLast, finals>>
    /\ UNCHANGED <<chanVars, discVars, evVars, dashVars>>
    /\ UNCHANGED <<appVars, logVars, detVars, fnVars>>

\* action.rs:175-187  one turn of `while let Some(chunk) = stream.next().await`
\* of the Create command: the stream ends, or yields an error, or yields a
\* status that is sent on when it differs from the last one sent
WorkerPull ==
    /\ wpc = "create_pull"
    /\ \/ /\ wpc' = "create_creating"
          /\ UNCHANGED <<chunks, last_status, calls>>
       \/ /\ chunks < MaxChunks
          /\ chunks' = chunks + 1
          /\ \/ /\ wpc' = "create_pull"
                /\ calls' = Record(calls, <<Called("create_pull", "err")>>)
                /\ UNCHANGED last_status
             \/ /\ UNCHANGED calls
                /\ \E st \in Statuses :
                    IF st # last_status
                    THEN wpc' = "create_pull_progress" /\ last_status' = st
                    ELSE wpc' = "create_pull" /\ UNCHANGED last_status
    /\ UNCHANGED <<cur, wres, count, fwd, sentLast, finals>>
    /\ UNCHANGED <<chanVars, discVars, evVars, dashVars>>
    /\ UNCHANGED <<appVars, logVars, detVars, fnVars>>

ItemKinds == {"Image", "Volume", "Container"}

DeleteCall_AlwaysImage(kind) == "remove_image"

\* a delete call of the cleanup, with the id it was given
Deleted(op, id, o) == [op |-> op, o |-> o, id |-> id]

\* action.rs:129-139  match item.kind: the delete call of the kind
DeleteCall(kind) ==
    CASE kind = "Image" -> "remove_image"
      [] kind = "Volume" -> "remove_volume"
      [] kind = "Container" -> "remove_container"

\* action.rs:128-144  one turn of `for item in items` of CleanJanitor: the
\* delete call of the item, whatever it returns, then the count
WorkerClean ==
    /\ wpc = "clean_delete"
    /\ \E o \in {"ok", "err"} :
        LET item == cur.items[count + 1]
        IN  calls' = Record(calls,
                        <<Deleted(DeleteCall(item.kind), item.id, o)>>)
    /\ count' = count + 1
    /\ IF count' % 5 = 0 THEN wpc' = "clean_progress" /\ UNCHANGED wres
       ELSE IF count' < Len(cur.items)
            THEN wpc' = "clean_delete" /\ UNCHANGED wres
       ELSE wpc' = "final" /\ wres' = "Janitor finished"
    /\ UNCHANGED <<cur, chunks, last_status, fwd, sentLast, finals>>
    /\ UNCHANGED <<chanVars, discVars, evVars, dashVars>>
    /\ UNCHANGED <<appVars, logVars, detVars, fnVars>>

\* action.rs:52  let _ = tx_refresh.send(()).await
WorkerRefresh ==
    /\ wpc = "refresh_send"
    /\ RefreshHasRoom
    /\ refreshQ' = refreshQ + 1
    /\ wpc' = "final" /\ wres' = "Refreshed containers"
    /\ UNCHANGED <<cur, count, chunks, last_status, fwd, sentLast, finals,
                   calls>>
    /\ UNCHANGED <<containersQ, logQ, actionQ, resultQ, janitorQ>>
    /\ UNCHANGED <<discVars, evVars, dashVars>>
    /\ UNCHANGED <<appVars, logVars, detVars, fnVars>>

\* action.rs:122  let _ = tx_janitor_items.send(items).await
WorkerPublish ==
    /\ wpc = "scan_publish"
    /\ Len(janitorQ) < JanitorCap
    /\ janitorQ' = Append(janitorQ, [cmd |-> cur.idx, items |-> cur.items])
    /\ wpc' = "final" /\ wres' = "Scan Complete"
    /\ UNCHANGED <<cur, count, chunks, last_status, fwd, sentLast, finals,
                   calls>>
    /\ UNCHANGED <<containersQ, logQ, actionQ, resultQ, refreshQ>>
    /\ UNCHANGED <<discVars, evVars, dashVars>>
    /\ UNCHANGED <<appVars, logVars, detVars, fnVars>>

\* action.rs:303-328  cmd.spawn() of `docker build`; on success two tasks
\* are spawned that forward the child's stdout and stderr to tx_logs
WorkerSpawnBuild ==
    /\ wpc = "build_spawn"
    /\ \/ /\ wpc' = "final" /\ wres' = "Failed to spawn docker build"
          /\ UNCHANGED fwd
       \/ /\ wpc' = "build_wait" /\ UNCHANGED wres
          /\ fwd' = [p \in {"stdout", "stderr"} |-> fwd[p] + MaxBuildLines]
    /\ UNCHANGED <<cur, count, chunks, last_status, sentLast, finals, calls>>
    /\ UNCHANGED <<chanVars, discVars, evVars, dashVars>>
    /\ UNCHANGED <<appVars, logVars, detVars, fnVars>>

\* action.rs:307-327  a forwarding task sends one line of build output:
\* tx.send(format!("[BUILD] {}", l)).await
BuildForward ==
    /\ \E p \in {"stdout", "stderr"} :
        /\ fwd[p] > 0
        /\ Len(logQ) < LogsCap
        /\ fwd' = [fwd EXCEPT ![p] = @ - 1]
        /\ logQ' = Append(logQ,
              [src |-> IF p = "stdout" THEN "[BUILD]" ELSE "[BUILD ERR]",
               task |-> 0, container |-> "none"])
    /\ UNCHANGED <<wpc, cur, wres, count, chunks, last_status, sentLast, finals,
                   calls>>
    /\ UNCHANGED <<containersQ, actionQ, resultQ, janitorQ, refreshQ>>
    /\ UNCHANGED <<discVars, evVars, dashVars>>
    /\ UNCHANGED <<appVars, logVars, detVars, fnVars>>

\* action.rs:522  let _ = tx_action_result.send(res).await, then the loop
\* goes back to rx_action.recv()
WorkerFinal ==
    /\ wpc = "final"
    /\ ResultHasRoom
    /\ resultQ' = Append(resultQ, [cmd |-> cur.idx, final |-> TRUE, text |-> wres])
    /\ sentLast' = cur.idx
    /\ finals' = Append(finals, cur.idx)
    /\ wpc' = "recv"
    /\ calls' = <<>>
    /\ UNCHANGED <<cur, wres, count, chunks, last_status, fwd>>
    /\ UNCHANGED <<containersQ, logQ, actionQ, janitorQ, refreshQ>>
    /\ UNCHANGED <<discVars, evVars, dashVars>>
    /\ UNCHANGED <<appVars, logVars, detVars, fnVars>>

\* ---------------------------------------------------------------------
\* Dashboard Loop: a key press that submits a command
\* (main.rs:645-647, 658-675, 681-685, 830-864)
\* ---------------------------------------------------------------------
\* a list of MaxItems items of all kinds
FullList ==
    [i \in 1..MaxItems |->
        JanitorItem(i,
            CASE i % 3 = 1 -> "Image" [] i % 3 = 2 -> "Volume"
              [] OTHER -> "Container",
            TRUE)]

\* the item lists a CleanJanitor command is submitted with
ItemLists == {<<>>, FullList}

\* let _ = tx_action.send(action).await: the command is queued, or, with the
\* queue full, the Dashboard Loop is suspended in the send
DashKey ==
    /\ dashPc = "idle"
    /\ issued < operator.budget
    /\ \E k \in operator.kinds :
       \E n \in IF k = "CleanJanitor" THEN operator.lists ELSE {<<>>} :
       \E ovr \in IF k = "ComposeUp" THEN operator.overrides ELSE {FALSE} :
        LET c == [idx |-> issued + 1, kind |-> k, items |-> n,
                  override |-> ovr] IN
        IF Len(actionQ) < ActionCap
        THEN /\ actionQ' = Append(actionQ, c)
             /\ UNCHANGED <<dashPc, pending>>
        ELSE /\ dashPc' = "blocked"
             /\ pending' = c
             /\ UNCHANGED actionQ
    /\ issued' = issued + 1
    /\ UNCHANGED operator
    /\ UNCHANGED <<containersQ, logQ, resultQ, janitorQ, refreshQ>>
    /\ UNCHANGED <<discVars, evVars, workerVars>>
    /\ UNCHANGED <<appVars, logVars, detVars, fnVars>>

\* the suspended send completes once the worker has taken a command
DashSent ==
    /\ dashPc = "blocked"
    /\ Len(actionQ) < ActionCap
    /\ actionQ' = Append(actionQ, pending)
    /\ dashPc' = "idle"
    /\ pending' = NoCmd
    /\ UNCHANGED <<issued, operator>>
    /\ UNCHANGED <<containersQ, logQ, resultQ, janitorQ, refreshQ>>
    /\ UNCHANGED <<discVars, evVars, workerVars>>
    /\ UNCHANGED <<appVars, logVars, detVars, fnVars>>

\* ---------------------------------------------------------------------
\* Dashboard Loop: the tick (main.rs:873-981)
\* ---------------------------------------------------------------------
\* app.rs:293-307  App::update_containers: the filter is off by default
\* (show_all_containers, config.rs:92) and the containers of a snapshot are
\* in one lifecycle state here, so the stable sort by state keeps the order
UpdateContainers(cs) == cs

\* main.rs:875-886  one turn of `while let Ok(containers) = rx_containers
\* .try_recv()`: the list is replaced, the selection is pulled back into
\* the list, and with no focus yet the selected container becomes the focus
ApplySnapshot_NoClamp(st, snap) ==
    LET cs == UpdateContainers(snap)
        foc == IF Len(cs) > 0 /\ st.focus.val = None /\ st.sel < Len(cs)
               THEN [val |-> cs[st.sel + 1], ver |-> st.focus.ver + 1]
               ELSE st.focus
    IN [cs |-> cs, sel |-> st.sel, focus |-> foc]

ApplySnapshot(st, snap) ==
    LET cs == UpdateContainers(snap)
        sel == IF st.sel >= Len(cs) /\ cs # <<>> THEN Len(cs) - 1 ELSE st.sel
        foc == IF Len(cs) > 0 /\ st.focus.val = None /\ sel < Len(cs)
               THEN [val |-> cs[sel + 1], ver |-> st.focus.ver + 1]
               ELSE st.focus
    IN [cs |-> cs, sel |-> sel, focus |-> foc]

\* the turns of the `while let`, one per waiting snapshot (the singleton
\* set has TLC evaluate the state before a turn once)
RECURSIVE ApplySnapshots(_, _)
ApplySnapshots(st, q) ==
    IF q = <<>> THEN st
    ELSE ApplySnapshots(
            CHOOSE r \in {ApplySnapshot(x, Head(q)) : x \in {st}} : TRUE,
            Tail(q))

\* the list, the selection and the focus after the snapshots waiting on the
\* channel have been taken in
Ticked ==
    ApplySnapshots(
        [cs |-> appContainers, sel |-> selected_index, focus |-> focus],
        containersQ)

\* main.rs:889-896  one turn of `while let Ok((stats, inspect)) =
\* rx_details.try_recv()`: the sample on display, if any, becomes the previous
\* sample, and the pair received is put on display. A sample is written as
\* the id of the container it was fetched for.
TakeDetails(a, pair) ==
    [a EXCEPT !.previous_stats =
                  IF a.current_stats # None THEN a.current_stats ELSE @,
              !.current_stats =
                  IF pair.stats = "Some" THEN pair.target ELSE None,
              !.current_inspection =
                  IF pair.inspect = "Some" THEN pair.target ELSE None]

\* app.rs:344-349  App::add_log: the buffer keeps the last 100 lines
LogBufferCap == 100

add_log(logs, log) ==
    IF Len(logs) >= LogBufferCap THEN Append(Tail(logs), log)
    ELSE Append(logs, log)

\* main.rs:946-948  while let Ok(log) = rx_logs.try_recv() { app.add_log(log) }
TakeLog(a, log) == [a EXCEPT !.logs = add_log(@, log)]

\* app.rs:426-434  App::toggle_wizard
NoWizard == [step |-> "none"]
ModeSelection(selected) == [step |-> "ModeSelection", selected_index |-> selected]

toggle_wizard(wizard) ==
    IF wizard # NoWizard THEN NoWizard ELSE ModeSelection(0)

\* main.rs:951-964  `if let Ok(msg) = rx_action_result.try_recv()`: with
\* the wizard open, every message but "Scan Complete" closes it
TakeResult(a, q) ==
    IF q = <<>> THEN a
    ELSE LET is_scan_complete == Head(q).text = "Scan Complete"
         IN  IF a.wizard # NoWizard /\ ~is_scan_complete
             THEN [a EXCEPT !.wizard = toggle_wizard(@)]
             ELSE a

\* main.rs:967-974  one turn of `while let Ok(items) = rx_janitor_items
\* .try_recv()`: a wizard on the Janitor step takes the list
TakeItems(a, msg) ==
    IF a.wizard.step = "Janitor"
    THEN [a EXCEPT !.wizard.items = msg.items, !.wizard.loading = FALSE]
    ELSE a

\* the turns of a `while let` over the messages waiting on a channel
RECURSIVE Drain(_, _, _)
Drain(Take1(_, _), a, q) ==
    IF q = <<>> THEN a
    ELSE Drain(Take1, CHOOSE r \in {Take1(x, Head(q)) : x \in {a}} : TRUE,
               Tail(q))

\* the App after the drains of a tick, in the order of the code
TickedApp ==
    LET detailed == Drain(TakeDetails, app, detailsQ)
        logged == Drain(TakeLog, detailed, logQ)
        resulted == TakeResult(logged, resultQ)
    IN  Drain(TakeItems, resulted, janitorQ)

\* `while let Ok(..) = rx.try_recv()` empties a channel; the action results
\* are read with `if let`, one message per tick (main.rs:951)
DashTick ==
    /\ dashPc = "idle"
    /\ appContainers' = Ticked.cs
    /\ selected_index' = Ticked.sel
    /\ focus' = Ticked.focus
    /\ app' = TickedApp
    /\ containersQ' = <<>>
    /\ logQ' = <<>>
    /\ resultQ' = IF resultQ = <<>> THEN <<>> ELSE Tail(resultQ)
    /\ janitorQ' = <<>>
    /\ UNCHANGED <<actionQ, refreshQ>>
    /\ detailsQ' = <<>>
    /\ UNCHANGED <<detPc, detSeen, elapsed, detFetch, fetches>>
    /\ UNCHANGED <<discVars, evVars, workerVars, dashVars>>
    /\ UNCHANGED <<logVars, fnVars>>

\* app.rs:327-338  App::set_loading
set_loading(a) ==
    [a EXCEPT !.current_stats = None, !.previous_stats = None,
              !.current_inspection = None, !.logs = <<>>]

\* main.rs:686-697  Down/j and Up/k outside the wizard: App::next or
\* App::previous (app.rs:309-325), then tx_target.send(Some(id)) of the
\* newly selected container
DashNav ==
    /\ dashPc = "idle"
    /\ app.wizard = NoWizard
    /\ appContainers # <<>>
    /\ focus.ver <= operator.nav
    /\ \E key \in {"Down", "Up"} :
        LET n == Len(appContainers)
            sel == IF key = "Down" THEN (selected_index + 1) % n
                   ELSE IF selected_index > 0 THEN selected_index - 1
                   ELSE n - 1
        IN /\ selected_index' = sel
           /\ focus' = IF sel < n
                       THEN [val |-> appContainers[sel + 1], ver |-> focus.ver + 1]
                       ELSE focus
    /\ app' = set_loading(app)
    /\ UNCHANGED appContainers
    /\ UNCHANGED <<chanVars, discVars, evVars, workerVars, dashVars, logVars>>
    /\ UNCHANGED <<detVars, fnVars>>

\* main.rs:638-643  'q' outside the wizard: `break`, main returns
DashQuit ==
    /\ dashPc = "idle"
    /\ dashPc' = "quit"
    /\ UNCHANGED <<pending, issued, operator>>
    /\ UNCHANGED <<chanVars, discVars, evVars, workerVars, appVars, logVars>>
    /\ UNCHANGED <<detVars, fnVars>>

\* ---------------------------------------------------------------------
\* Task 3: Log Streamer (main.rs:152-217)
\* ---------------------------------------------------------------------
\* A subtask is a tokio task on the multi-threaded runtime (#[tokio::main],
\* main.rs:74), so it runs in parallel with the Log Task. A subtask that
\* has ended, or has been dropped, keeps no state: Ended(task).
Ended(task) == [task EXCEPT !.pc = "done", !.cancelled = FALSE, !.pos = 0]

\* main.rs:162  task.abort(): JoinHandle::abort marks the task cancelled and
\* returns; the Log Task does not await the handle. A subtask parked at an
\* await is dropped without being polled again. A subtask that a runtime
\* thread is polling at that moment keeps running until its poll returns
\* Pending, and only then is it dropped. Which of the two the abort finds
\* is a matter of timing.
AbortOutcomes(task) ==
    IF task.pc = "done" THEN {task}
    ELSE {Ended(task), [task EXCEPT !.cancelled = TRUE]}

SpawnTarget_Stale(new_id, old_id) == old_id

\* main.rs:165  the id the new subtask streams: `new_id.clone()`
SpawnTarget(new_id, old_id) == new_id

\* main.rs:157-215  one turn of the Log Task's loop: changed() resolves once
\* the register's version differs from the one seen; the value is read, and
\* if it differs from last_id the old subtask is aborted and a new one
\* spawned
LogWake ==
    /\ focus.ver # logSeen
    /\ logSeen' = focus.ver
    /\ LET new_id == focus.val IN
        IF new_id # last_id
        THEN \E old \in IF current_log_task = 0 THEN {<<>>}
                        ELSE AbortOutcomes(subs[current_log_task]) :
             LET aborted ==
                    IF current_log_task = 0 THEN subs
                    ELSE [subs EXCEPT ![current_log_task] = old]
             IN /\ IF new_id # None
                   THEN /\ subs' = Append(aborted,
                                [target |-> SpawnTarget(new_id, last_id),
                                 spawnFocus |-> new_id,
                                 pc |-> "open", cancelled |-> FALSE, pos |-> 0])
                        /\ current_log_task' = Len(subs) + 1
                   ELSE /\ subs' = aborted
                        /\ current_log_task' = 0
                /\ last_id' = new_id
        ELSE UNCHANGED <<subs, current_log_task, last_id>>
    /\ UNCHANGED <<chanVars, discVars, evVars, workerVars, dashVars, appVars>>
    /\ UNCHANGED <<detVars, fnVars>>

\* the poll of a subtask marked cancelled returns Pending: it is dropped
SubDrop ==
    /\ \E t \in 1..Len(subs) :
        /\ subs[t].pc # "done" /\ subs[t].cancelled
        /\ subs' = [subs EXCEPT ![t] = Ended(@)]
    /\ UNCHANGED <<logSeen, last_id, current_log_task>>
    /\ UNCHANGED <<chanVars, discVars, evVars, workerVars, dashVars, appVars>>
    /\ UNCHANGED <<detVars, fnVars>>

\* main.rs:170  client.get_logs_stream(&id).await (docker.rs:208-231)
SubOpen ==
    /\ \E t \in 1..Len(subs) :
        /\ subs[t].pc = "open"
        /\ \E ok \in BOOLEAN :
            subs' = [subs EXCEPT ![t] = IF ok THEN [@ EXCEPT !.pc = "read"]
                                        ELSE Ended(@)]
    /\ UNCHANGED <<logSeen, last_id, current_log_task>>
    /\ UNCHANGED <<chanVars, discVars, evVars, workerVars, dashVars, appVars>>
    /\ UNCHANGED <<detVars, fnVars>>

\* main.rs:172-193  stream.read_exact of the next frame of the connection:
\* a frame, or an error that ends the subtask
SubRead ==
    /\ \E t \in 1..Len(subs) :
        /\ subs[t].pc = "read"
        /\ \/ /\ subs[t].pos < MaxLines
              /\ subs' = [subs EXCEPT ![t].pos = @ + 1, ![t].pc = "send"]
           \/ subs' = [subs EXCEPT ![t] = Ended(@)]
    /\ UNCHANGED <<logSeen, last_id, current_log_task>>
    /\ UNCHANGED <<chanVars, discVars, evVars, workerVars, dashVars, appVars>>
    /\ UNCHANGED <<detVars, fnVars>>

\* main.rs:182,192  tx.send(l.to_string()).await of the line just read
SubSend ==
    /\ \E t \in 1..Len(subs) :
        /\ subs[t].pc = "send"
        /\ Len(logQ) < LogsCap
        /\ logQ' = Append(logQ,
              [src |-> "log", task |-> t, container |-> subs[t].target])
        /\ subs' = [subs EXCEPT ![t].pc = "read"]
    /\ UNCHANGED <<logSeen, last_id, current_log_task>>
    /\ UNCHANGED <<containersQ, actionQ, resultQ, janitorQ, refreshQ>>
    /\ UNCHANGED <<discVars, evVars, workerVars, dashVars, appVars>>
    /\ UNCHANGED <<detVars, fnVars>>

\* ---------------------------------------------------------------------
\* Task 2: Details Fetcher (main.rs:121-146)
\* ---------------------------------------------------------------------
\* main.rs:145  the poll period, sleep(100 ms), is the unit of `elapsed`
\* main.rs:126  Duration::from_secs(2): the refresh interval in poll periods
RefreshPolls == 20

ShouldFetch_TimerOnly(target_changed, time_to_update) == time_to_update

\* main.rs:128  if target_changed || time_to_update
ShouldFetch(target_changed, time_to_update) ==
    target_changed \/ time_to_update

\* main.rs:125-133  the head of the loop: has_changed(), the age of the last
\* fetch, borrow_and_update() on a change, and the target read from the
\* register; with no target, or nothing to do, the task goes to its sleep
DetPoll ==
    /\ detPc = "poll"
    /\ fetches < MaxFetches
    /\ LET target_changed == focus.ver # detSeen
           time_to_update == elapsed >= RefreshPolls
       IN IF ShouldFetch(target_changed, time_to_update)
          THEN /\ detSeen' = focus.ver
               /\ IF focus.val # None
                  THEN /\ detPc' = "stats"
                       /\ detFetch' = [target |-> focus.val,
                                       stats |-> "idle", inspect |-> "idle"]
                       /\ fetches' = fetches + 1
                  ELSE /\ detPc' = "sleep"
                       /\ UNCHANGED <<detFetch, fetches>>
          ELSE /\ detPc' = "sleep"
               /\ UNCHANGED <<detSeen, detFetch, fetches>>
    /\ UNCHANGED <<detailsQ, elapsed>>
    /\ UNCHANGED <<chanVars, discVars, evVars, workerVars, dashVars>>
    /\ UNCHANGED <<appVars, logVars, fnVars>>

AfterStats_SkipOnError(o) == IF o = "ok" THEN "inspect" ELSE "send"

\* main.rs:134-135  `.ok()` turns the result of get_stats into an Option and
\* the next statement is the inspect call
AfterStats(o) == "inspect"

\* main.rs:134  client.get_stats(&id).await.ok()
DetStats ==
    /\ detPc = "stats"
    /\ \E o \in {"ok", "err"} :
        /\ detFetch' = [detFetch EXCEPT !.stats = o]
        /\ detPc' = AfterStats(o)
    /\ UNCHANGED <<detailsQ, detSeen, elapsed, fetches>>
    /\ UNCHANGED <<chanVars, discVars, evVars, workerVars, dashVars>>
    /\ UNCHANGED <<appVars, logVars, fnVars>>

\* main.rs:135  client.inspect_container(&id).await.ok()
DetInspect ==
    /\ detPc = "inspect"
    /\ \E o \in {"ok", "err"} :
        detFetch' = [detFetch EXCEPT !.inspect = o]
    /\ detPc' = "send"
    /\ UNCHANGED <<detailsQ, detSeen, elapsed, fetches>>
    /\ UNCHANGED <<chanVars, discVars, evVars, workerVars, dashVars>>
    /\ UNCHANGED <<appVars, logVars, fnVars>>

\* the Option<..> that `.ok()` makes of the outcome of a call
Ok(o) == IF o = "ok" THEN "Some" ELSE "None"

\* main.rs:137-140  tx_details.send((stats, inspect)).await; a closed
\* channel ends the task, otherwise last_fetch = Instant::now()
DetSend ==
    /\ detPc = "send"
    /\ IF ReceiversDropped
       THEN /\ detPc' = "done"
            /\ UNCHANGED <<detailsQ, elapsed, detFetch>>
       ELSE /\ Len(detailsQ) < DetailsCap
            /\ detailsQ' = Append(detailsQ,
                    [target |-> detFetch.target,
                     stats |-> Ok(detFetch.stats),
                     inspect |-> Ok(detFetch.inspect),
                     calls |-> detFetch])
            /\ elapsed' = 0
            /\ detFetch' = NoFetch
            /\ detPc' = "sleep"
    /\ UNCHANGED <<detSeen, fetches>>
    /\ UNCHANGED <<chanVars, discVars, evVars, workerVars, dashVars>>
    /\ UNCHANGED <<appVars, logVars, fnVars>>

\* main.rs:145  tokio::time::sleep(100 ms).await: one poll period passes
\* (the age of the last fetch is followed up to the refresh interval)
DetSleep ==
    /\ detPc = "sleep"
    /\ elapsed' = IF elapsed < RefreshPolls THEN elapsed + 1 ELSE elapsed
    /\ detPc' = "poll"
    /\ UNCHANGED <<detailsQ, detSeen, detFetch, fetches>>
    /\ UNCHANGED <<chanVars, discVars, evVars, workerVars, dashVars>>
    /\ UNCHANGED <<appVars, logVars, fnVars>>

\* ---------------------------------------------------------------------
\* The operator of a run: the commands submitted (kinds, how many, the item
\* lists of CleanJanitor, whether ComposeUp carries an override file), the
\* navigation keys pressed, and whether the run keeps the call history;
\* and the daemon of a run: the container lists it reports, the entries
\* a list call of the scan finds, whether its list calls fail
\* ---------------------------------------------------------------------
Bystander ==
    [kinds |-> {}, budget |-> 0, lists |-> {<<>>}, overrides |-> {FALSE},
     nav |-> 0, trace |-> FALSE, found |-> {0}, faulty |-> TRUE,
     snapshots |-> {Containers}, backlog |-> ContainersCap + 1]

\* ---------------------------------------------------------------------
\* Initial state: the channels are empty, every task is at its first line
\* ---------------------------------------------------------------------
\* app.rs:240-291  App::new: no sample, no line, no wizard
NewApp ==
    [current_stats |-> None, previous_stats |-> None,
     current_inspection |-> None, logs |-> <<>>, wizard |-> NoWizard]

InitTasks ==
    /\ containersQ = <<>> /\ logQ = <<>> /\ actionQ = <<>>
    /\ resultQ = <<>> /\ janitorQ = <<>> /\ refreshQ = 0
    /\ discWake = "initial"
    /\ evPc = "open" /\ evLast = "none" /\ unserved = FALSE
    /\ wpc = "recv" /\ cur = NoCmd /\ wres = ""
    /\ count = 0 /\ chunks = 0 /\ last_status = ""
    /\ fwd = [p \in {"stdout", "stderr"} |-> 0]
    /\ sentLast = 0 /\ finals = <<>> /\ calls = <<>>
    /\ dashPc = "idle" /\ pending = NoCmd /\ issued = 0
    /\ appContainers = <<>> /\ selected_index = 0
    /\ app = NewApp
    /\ focus = [val |-> None, ver |-> 0]
    /\ logSeen = 0 /\ last_id = None /\ current_log_task = 0 /\ subs = <<>>
    /\ detailsQ = <<>> /\ detPc = "poll" /\ detSeen = 0 /\ elapsed = 0
    /\ detFetch = NoFetch /\ fetches = 0

\* the tasks at their start; no parsing function is looked at
NoArg == [fn |-> "none"]
NoRet == [kind |-> "none"]
InitCommon == InitTasks /\ arg = NoArg /\ ret = NoRet

\* the lister at its first line
InitDisc == discPc = DiscInitPc /\ listed = FALSE

\* the refresh pipeline: events, the lister, and the dashboard's tick
InitRefresh ==
    /\ InitCommon /\ InitDisc
    /\ operator = Bystander

NextRefresh ==
    \/ DiscInitialList \/ DiscInitialSend \/ DiscTimer \/ DiscRecvRefresh
    \/ DiscList \/ DiscSend
    \/ EvOpen \/ EvRead \/ EvSend \/ EvBackoff
    \/ DashTick

SpecRefresh == InitRefresh /\ [][NextRefresh]_vars

\* the detail pipeline: the first listing, an operator who moves the
\* selection, and the Detail Task
InitDetail ==
    /\ InitCommon /\ InitDisc
    /\ operator = [Bystander EXCEPT !.nav = MaxNav]

NextDetail ==
    \/ DiscInitialList \/ DiscInitialSend
    \/ DashTick \/ DashNav
    \/ DetPoll \/ DetStats \/ DetInspect \/ DetSend \/ DetSleep

SpecDetail == InitDetail /\ [][NextDetail]_vars

\* the refresh pipeline up to and past the operator's quit
NextShutdown == NextRefresh \/ DashQuit \/ DiscSendClosed

SpecShutdown == InitRefresh /\ [][NextShutdown]_vars

\* ---------------------------------------------------------------------
\* The command pipeline: the operator's keys, the worker, the tick, and the
\* lister that takes the triggers of RefreshContainers
\* ---------------------------------------------------------------------
\* what the operator does in a run: any two commands, or one key held down
Operators ==
    {[Bystander EXCEPT !.kinds = Kinds, !.budget = MaxCmds, !.lists = ItemLists],
     [Bystander EXCEPT !.kinds = {"Replace"}, !.budget = FloodCmds]}

\* the lister has made its initial fetch, which found the daemon down, and
\* waits in its select
InitAction ==
    /\ InitCommon
    /\ discPc = "select" /\ listed = TRUE
    /\ operator \in Operators

NextAction ==
    \/ DashKey \/ DashSent \/ DashTick
    \/ WorkerRecv \/ WorkerProgress \/ WorkerCall \/ WorkerPull
    \/ WorkerClean \/ WorkerRefresh \/ WorkerPublish \/ WorkerSpawnBuild
    \/ WorkerFinal
    \/ DiscRecvRefresh \/ DiscList \/ DiscSend

SpecAction == InitAction /\ [][NextAction]_vars

\* single commands with their call history: an operator who submits one
\* Create, Replace, ComposeUp or CleanJanitor command
RECURSIVE ListsUpTo(_)
ListsUpTo(n) ==
    IF n = 0 THEN {<<>>}
    ELSE LET shorter == ListsUpTo(n - 1)
         IN shorter \cup {Append(l, JanitorItem(n, k, TRUE)) :
                             l \in {x \in shorter : Len(x) = n - 1},
                             k \in ItemKinds}

StepOperators ==
    {[Bystander EXCEPT !.kinds = {"Create", "Replace", "ComposeUp",
                                  "CleanJanitor"},
                       !.budget = 1,
                       !.lists = ListsUpTo(MaxListLen) \cup {FullList},
                       !.overrides = BOOLEAN,
                       !.trace = TRUE]}

InitSteps ==
    /\ InitCommon
    /\ discPc = "select" /\ listed = TRUE
    /\ operator \in StepOperators

NextSteps ==
    \/ DashKey \/ DashTick
    \/ WorkerRecv \/ WorkerProgress \/ WorkerCall \/ WorkerPull
    \/ WorkerClean \/ WorkerFinal

SpecSteps == InitSteps /\ [][NextSteps]_vars

\* the selection: a daemon whose containers come and go, the lister with
\* its timer, the tick and the navigation keys
RECURSIVE SubLists(_)
SubLists(s) ==
    IF s = <<>> THEN {<<>>}
    ELSE LET rest == SubLists(Tail(s))
         IN  rest \cup {<<Head(s)>> \o r : r \in rest}

\* snapshots that wait for a tick when the lister's timer fires
MaxPending == 2

InitSelect ==
    /\ InitCommon /\ InitDisc
    /\ operator = [Bystander EXCEPT !.nav = MaxNav,
                                    !.snapshots = SubLists(Containers),
                                    !.backlog = MaxPending]

NextSelect ==
    \/ DiscInitialList \/ DiscInitialSend \/ DiscTimer \/ DiscList \/ DiscSend
    \/ DashTick \/ DashNav

SpecSelect == InitSelect /\ [][NextSelect]_vars

\* the log pipeline: the first listing, focus changes, the Log Task and its
\* subtasks, and an operator who submits Build commands
\* the operators of the log run: one moves the selection and submits
\* nothing, one stays on the first container and submits one Build command,
\* and one presses the navigation keys on a list of a single container
LogOperators ==
    {[Bystander EXCEPT !.nav = MaxNav],
     [Bystander EXCEPT !.kinds = {"Build"}, !.budget = 1],
     [Bystander EXCEPT !.nav = MaxNav,
                       !.snapshots = {<<Head(Containers)>>}]}

InitLog ==
    /\ InitCommon /\ InitDisc
    /\ operator \in LogOperators

NextLog ==
    \/ DiscInitialList \/ DiscInitialSend
    \/ DashTick \/ DashNav \/ DashKey
    \/ LogWake \/ SubDrop \/ SubOpen \/ SubRead \/ SubSend
    \/ WorkerRecv \/ WorkerProgress \/ WorkerSpawnBuild \/ WorkerCall
    \/ WorkerFinal \/ BuildForward

SpecLog == InitLog /\ [][NextLog]_vars

\* ---------------------------------------------------------------------
\* Claims about the command pipeline
\* ---------------------------------------------------------------------
StrictlyIncreasing(q) == \A i, j \in 1..Len(q) : i < j => q[i] < q[j]

\* C1: the messages on the result channel are in the enqueue order of their
\* commands: no message of a command is sent after a message of a command
\* enqueued later, and the final results come in enqueue order.
C1_ResultsInEnqueueOrder ==
    /\ [][sentLast' >= sentLast]_vars
    /\ [](StrictlyIncreasing(finals))

\* a long command (Replace) was enqueued before a short one (Start), and
\* both final results are in the result channel
C1_Witness ==
    /\ Len(resultQ) >= 2
    /\ resultQ[Len(resultQ) - 1] = [cmd |-> 1, final |-> TRUE, text |-> "Replaced container"]
    /\ resultQ[Len(resultQ)] = [cmd |-> 2, final |-> TRUE, text |-> "Started container"]

\* the commands the worker has taken from the queue
Dequeued ==
    {c \in 1..issued :
        /\ c # pending.idx
        /\ \A i \in 1..Len(actionQ) : actionQ[i].idx # c}

InProgress == IF wpc = "recv" THEN {} ELSE {cur.idx}

FinalsOf(c) == Cardinality({i \in 1..Len(finals) : finals[i] = c})

C3_NoMutualBlock ==
    ~(/\ dashPc = "blocked" /\ Len(actionQ) = ActionCap
      /\ wpc \in ProgressLabels \cup {"final"} /\ ~ResultHasRoom)

\* ---------------------------------------------------------------------
\* Claims about the log pipeline
\* ---------------------------------------------------------------------
\* C4: at most one log subtask reads from the daemon at a time: a subtask
\* that the Log Task has cancelled performs no further read on its log
\* connection.
C4_CancelledSubtaskReadsNoMore ==
    [][\A t \in 1..Len(subs) :
          subs[t].cancelled => subs'[t].pos <= subs[t].pos]_vars

LineSent == Len(logQ') = Len(logQ) + 1

\* C5: once the Log Task has observed a focus switch from X to Y, no further
\* line read from X's stream is sent on the log channel: a line is only ever
\* sent by a log subtask that has not been cancelled.
C5_NoLineAfterSwitchObserved ==
    [][LineSent /\ logQ'[Len(logQ')].src = "log"
          => ~subs[logQ'[Len(logQ')].task].cancelled]_vars

FromLogSubtask(line) ==
    /\ line.src = "log"
    /\ line.task \in 1..Len(subs)
    /\ line.container # None
    /\ line.container = subs[line.task].spawnFocus

FromBuildForwarder(line) ==
    /\ line.src \in {"[BUILD]", "[BUILD ERR]"}
    /\ cur.kind = "Build"

FairSpecRefresh ==
    /\ SpecRefresh
    /\ WF_vars(DiscInitialList) /\ WF_vars(DiscInitialSend)
    /\ WF_vars(DiscRecvRefresh) /\ WF_vars(DiscList) /\ WF_vars(DiscSend)
    /\ WF_vars(EvSend) /\ WF_vars(EvBackoff)
    /\ WF_vars(DashTick)

\* ---------------------------------------------------------------------
\* Claims about the refresh pipeline
\* ---------------------------------------------------------------------

\* C7: when the Event Task has received an event, sending the refresh
\* trigger never blocks it: it is never at the send with the capacity-1
\* Refresh channel full, waiting for the pending trigger to be taken.
C7_EventSendNeverBlocks == ~(evPc = "send" /\ ~RefreshHasRoom)

\* C8: every event received by the Event Task is eventually followed by a
\* list-containers call of the Discovery Task that starts after the event
\* arrived, without the help of the poll timer.
C8_EventLeadsToList == unserved ~> ~unserved

\* an event was received and the lister, woken by the trigger, is in the
\* list call that serves it
C8_Witness ==
    /\ evLast = "data" /\ ~unserved
    /\ discPc = "list" /\ discWake = "refresh"

\* C9: after a failed open, a closed stream or a failed read the Event Task
\* goes to the backoff wait, after the backoff it opens the stream again,
\* and it never terminates.
C9_EventTaskReconnects ==
    /\ [][(evPc \in {"open", "read"} /\ evPc' # evPc /\ evLast' \in EvFailures)
            => evPc' = "backoff"]_vars
    /\ [][(evPc = "backoff" /\ evPc' # evPc) => evPc' = "open"]_vars
    /\ [](evPc \in {"open", "read", "send", "backoff"})
    /\ (evPc = "backoff" ~> evPc = "open")

\* the task is opening the stream again after a failure and its backoff
C9_Witness == evPc = "open" /\ evLast \in EvFailures

\* C10: the Discovery Task does not wait on the poll interval or on the
\* Refresh channel before it has issued its first list-containers call.
C10_FirstListBeforeWait == discPc = "select" => listed

\* the task reached its first wait, the initial fetch behind it
C10_Witness == discPc = "select" /\ discWake = "initial" /\ listed

\* ---------------------------------------------------------------------
\* Claims about error handling
\* ---------------------------------------------------------------------
\* a list call leads to the send of its snapshot or back to the select,
\* and publishes nothing itself
ListStepContinues ==
    (discPc \in {"initial_list", "list"} /\ discPc' # discPc) =>
        /\ discPc' \in {"initial_send", "send", "select"}
        /\ containersQ' = containersQ

\* the task ends only from a send that finds the channel closed
EndsOnlyOnClosedSend ==
    (discPc' = "done" /\ discPc # "done") =>
        (discPc = "send" /\ ReceiversDropped)

\* C11: a failed list-containers call publishes nothing and takes the
\* Discovery Task to its next wait; the task ends only from the send of a
\* snapshot that finds the snapshot channel closed.
C11_FailedListContinues ==
    [][ListStepContinues /\ EndsOnlyOnClosedSend]_vars

\* the task has ended after the operator quit, and a snapshot that it
\* published while the channel was open is still waiting in it
C11_Witness == discPc = "done" /\ ReceiversDropped /\ containersQ # <<>>

\* the calls of the fetch that a published pair came from
BothCalled(p) ==
    /\ p.calls.stats \in {"ok", "err"}
    /\ p.calls.inspect \in {"ok", "err"}

AbsentIffFailed(p) ==
    /\ (p.stats = "None") <=> (p.calls.stats = "err")
    /\ (p.inspect = "None") <=> (p.calls.inspect = "err")

\* C12: in every fetch cycle of the Detail Task get-stats and
\* inspect-container are both called for the target, whatever the other
\* returned, and the published pair lacks exactly the components whose call
\* failed.
C12_BothCallsThenPair ==
    /\ \A i \in 1..Len(detailsQ) :
            BothCalled(detailsQ[i]) /\ AbsentIffFailed(detailsQ[i])
    /\ detPc = "send" => detFetch.inspect \in {"ok", "err"}

\* a pair whose stats call failed and whose inspect call succeeded
C12_Witness ==
    \E i \in 1..Len(detailsQ) :
        /\ detailsQ[i].calls.stats = "err" /\ detailsQ[i].stats = "None"
        /\ detailsQ[i].calls.inspect = "ok" /\ detailsQ[i].inspect = "Some"

FetchStarts == detPc = "poll" /\ detPc' = "stats"

\* a poll that finds the register changed to a set target starts a fetch
\* for that target
ChangeStartsFetch ==
    (detPc = "poll" /\ detPc' # "poll" /\ focus.ver # detSeen
        /\ focus.val # None)
    => (FetchStarts /\ detFetch'.target = focus.val)

\* without a change a fetch starts only when the interval has passed
NoChangeWaitsInterval ==
    (FetchStarts /\ focus.ver = detSeen) => elapsed >= RefreshPolls

\* C13: after a change of the Focus Register to a set target the Detail
\* Task fetches for the new target on its next poll, even within the 2 s
\* refresh interval; with a set target and no change it fetches only once
\* the interval has passed since the last fetch.
C13_FetchOnChangeOrInterval ==
    [][ChangeStartsFetch /\ NoChangeWaitsInterval]_vars

\* a fetch for Y has started although the last fetch, for X, is younger
\* than the refresh interval
C13_Witness ==
    /\ detPc = "stats" /\ elapsed < RefreshPolls
    /\ detFetch.target = Containers[2]
    /\ \E i \in 1..Len(detailsQ) : detailsQ[i].target = Containers[1]

\* ---------------------------------------------------------------------
\* Claims about single commands
\* ---------------------------------------------------------------------
HasCall(ops, outcomes) ==
    \E i \in 1..Len(calls) : calls[i].op \in ops /\ calls[i].o \in outcomes

PullFailed == HasCall({"create_pull", "replace_pull"}, {"err"})

CreateCalled == HasCall({"create_create", "replace_create"}, {"ok", "err"})

\* C14: in Create and Replace a failed image pull keeps create-container
\* from being called for the command, and the final result of the command
\* reports the failure.
C14_PullFailureStopsCreate ==
    /\ PullFailed => ~CreateCalled
    /\ (wpc = "final" /\ PullFailed) => wres \in FailureResults

Ops == [i \in 1..Len(calls) |-> calls[i].op]

\* C15: in Replace a failed stop or remove of the old container does not
\* keep the pull, the create and the start of the new container from being
\* attempted: the command makes its calls in the same order whatever stop
\* and remove return, and start follows every successful create.
C15_ReplaceBestEffortStopRemove ==
    (wpc = "final" /\ cur.kind = "Replace") =>
        /\ Len(calls) >= 4
        /\ SubSeq(Ops, 1, 4) =
              <<"replace_stop", "replace_remove", "replace_pull",
                "replace_create">>
        /\ calls[4].o = "ok" =>
              (Len(calls) = 5 /\ calls[5].op = "replace_start")

\* stop and remove both failed and the new container was started
C15_Witness ==
    /\ wpc = "final" /\ cur.kind = "Replace" /\ Len(calls) = 5
    /\ calls[1].o = "err" /\ calls[2].o = "err"
    /\ calls[5] = Called("replace_start", "ok")
    /\ wres = "Replaced container"

KindDelete ==
    [k \in ItemKinds |->
        IF k = "Image" THEN "remove_image"
        ELSE IF k = "Volume" THEN "remove_volume" ELSE "remove_container"]

\* C19: CleanJanitor issues, in list order, the delete call of the kind of
\* every item of its list, and goes on to the next item when a delete
\* fails.
C19_CleanDeletesEveryItem ==
    (cur.kind = "CleanJanitor" /\ wpc # "recv") =>
        /\ Len(calls) = count
        /\ \A i \in 1..Len(calls) : calls[i].op = KindDelete[cur.items[i].kind]
        /\ wpc = "final" => Len(calls) = Len(cur.items)

\* a list of a volume, an image and a container: the first delete failed
\* and the other two were issued
C19_Witness ==
    /\ wpc = "final" /\ cur.kind = "CleanJanitor"
    /\ cur.items = <<JanitorItem(1, "Volume", TRUE),
                     JanitorItem(2, "Image", TRUE),
                     JanitorItem(3, "Container", TRUE)>>
    /\ calls = <<Deleted("remove_volume", 1, "err"),
                 Deleted("remove_image", 2, "ok"),
                 Deleted("remove_container", 3, "ok")>>

\* ---------------------------------------------------------------------
\* Parsing functions.  A text is a sequence of characters.
\* ---------------------------------------------------------------------
Take(s, n) == SubSeq(s, 1, IF n < Len(s) THEN n ELSE Len(s))
Drop(s, n) == SubSeq(s, n + 1, Len(s))
StartsWith(s, p) == Len(s) >= Len(p) /\ SubSeq(s, 1, Len(p)) = p

\* str::split on one-character separators: n separators give n + 1
\* pieces, empty ones included
RECURSIVE Split(_, _)
Split(s, seps) ==
    IF \E i \in 1..Len(s) : s[i] \in seps
    THEN LET i == CHOOSE i \in 1..Len(s) :
                      s[i] \in seps /\ \A j \in 1..(i - 1) : s[j] \notin seps
         IN <<SubSeq(s, 1, i - 1)>> \o Split(Drop(s, i), seps)
    ELSE <<s>>

White == {" ", "\t", "\n", "\r"}

\* str::trim
RECURSIVE Trim(_)
Trim(s) ==
    IF s # <<>> /\ Head(s) \in White THEN Trim(Tail(s))
    ELSE IF s # <<>> /\ s[Len(s)] \in White THEN Trim(SubSeq(s, 1, Len(s) - 1))
    ELSE s

\* ---- the port spec of Create and Replace (action.rs) ----
\* format!("{}/tcp", p)
Tcp(p) == p \o <<"/tcp">>

PortBinding(host_port) == [host_ip |-> "0.0.0.0", host_port |-> host_port]

NoPorts == [kind |-> "ports", port_bindings |-> <<>>, exposed_ports |-> {}]

\* exposed_ports.insert(key) and port_bindings.entry(key).or_insert(vec![])
\* .push(binding)
PushBinding(m, key, host_port) ==
    [m EXCEPT
        !.exposed_ports = @ \cup {key},
        !.port_bindings =
            [k \in DOMAIN @ \cup {key} |->
                IF k = key
                THEN (IF key \in DOMAIN @ THEN @[key] ELSE <<>>)
                         \o <<PortBinding(host_port)>>
                ELSE @[k]]]

\* port_bindings.insert(key, vec![binding]): replaces what was under key
InsertBinding(m, key, host_port) ==
    [m EXCEPT
        !.exposed_ports = @ \cup {key},
        !.port_bindings =
            [k \in DOMAIN @ \cup {key} |->
                IF k = key THEN <<PortBinding(host_port)>> ELSE @[k]]]

\* Create: the loop over the pieces between spaces and commas
RECURSIVE CreatePortDefs(_, _)
CreatePortDefs(defs, m) ==
    IF defs = <<>> THEN m
    ELSE LET port_def == Trim(Head(defs))
             parts == Split(port_def, {":"})
         IN  CreatePortDefs(Tail(defs),
                 IF port_def = <<>> THEN m
                 ELSE IF Len(parts) = 2
                 THEN PushBinding(m, Tcp(Trim(parts[2])), Trim(parts[1]))
                 ELSE IF Len(parts) = 1
                 THEN PushBinding(m, Tcp(Trim(parts[1])), Trim(parts[1]))
                 ELSE m)

CreatePorts(ports) ==
    IF ports = <<>> THEN NoPorts
    ELSE CreatePortDefs(Split(ports, {" ", ","}), NoPorts)

\* Replace: the whole spec is split at its colons
ReplacePorts(ports) ==
    IF ports = <<>> THEN NoPorts
    ELSE LET parts == Split(ports, {":"})
         IN  IF Len(parts) = 2
             THEN InsertBinding(NoPorts, Tcp(parts[2]), parts[1])
             ELSE NoPorts

\* ---- port specs given to the parsers ----
\* a port number is kept as one character of the text: none of its digits
\* is a separator
PortNumbers == {"8080", "80"}

\* an entry is host:container, or a bare port
PortEntries ==
    {[bare |-> FALSE, host |-> h, container |-> c] :
        h \in PortNumbers, c \in PortNumbers}
    \cup {[bare |-> TRUE, host |-> p, container |-> p] : p \in PortNumbers}

EntryText(e) ==
    IF e.bare THEN <<e.host>> ELSE <<e.host, ":", e.container>>

Separators == {<<",">>, <<" ">>, <<",", " ">>}

MaxEntries == 2

\* the specs of at most n entries, each with the entries it was written from
RECURSIVE PortSpecs(_)
PortSpecs(n) ==
    IF n = 0 THEN {[entries |-> <<>>, text |-> <<>>]}
    ELSE LET shorter == PortSpecs(n - 1)
         IN  shorter \cup
             {[entries |-> Append(sp.entries, e),
               text |-> IF sp.entries = <<>> THEN EntryText(e)
                        ELSE sp.text \o sep \o EntryText(e)] :
                 sp \in shorter, e \in PortEntries, sep \in Separators}

PortArgs(n) ==
    {[fn |-> "ports", cmd |-> c, entries |-> sp.entries, ports |-> sp.text] :
        c \in {"Create", "Replace"}, sp \in PortSpecs(n)}

ParsePorts ==
    /\ arg.fn = "ports" /\ ret = NoRet
    /\ ret' = IF arg.cmd = "Create" THEN CreatePorts(arg.ports)
              ELSE ReplacePorts(arg.ports)
    /\ UNCHANGED <<arg, chanVars, discVars, evVars, workerVars, dashVars>>
    /\ UNCHANGED <<appVars, logVars, detVars>>


\* ---- the memory spec of Create and Replace (action.rs) ----
\* An i64 is kept as mantissa and exponent: [neg, m, e] is m * 2^e, negated
\* when neg.  Mantissas are below 2^20.
RECURSIVE Pow2(_)
Pow2(k) == IF k = 0 THEN 1 ELSE 2 * Pow2(k - 1)

\* the number of bits of m
RECURSIVE Bits(_)
Bits(m) == IF m = 0 THEN 0 ELSE 1 + Bits(m \div 2)

I64Bits == 64

\* m * 2^e <= i64::MAX
FitsI64(m, e) == m = 0 \/ Bits(m) + e <= I64Bits - 1

\* the i64 of the low 64 bits of m * 2^e (two's complement)
WrapI64(m, e) ==
    IF m = 0 \/ e >= I64Bits THEN [neg |-> FALSE, m |-> 0, e |-> e]
    ELSE LET low == IF Bits(m) + e <= I64Bits THEN m
                    ELSE m % Pow2(I64Bits - e)
         IN  IF Bits(low) + e = I64Bits
             THEN [neg |-> TRUE, m |-> Pow2(I64Bits - e) - low, e |-> e]
             ELSE [neg |-> FALSE, m |-> low, e |-> e]

Panic == [kind |-> "panic"]
NoMemory == [kind |-> "memory", some |-> FALSE]
SomeMemory(v) == [kind |-> "memory", some |-> TRUE, bytes |-> v]

Builds == {"debug", "release"}

\* v * 1024 on a non-negative i64: an overflow panics in a build with
\* overflow checks and wraps in a build without them
Times1024(v, build) ==
    IF v = Panic THEN Panic
    ELSE IF v.neg THEN WrapI64(Pow2(I64Bits - v.e) - v.m, v.e + 10)
    ELSE IF FitsI64(v.m, v.e + 10) THEN [v EXCEPT !.e = @ + 10]
    ELSE IF build = "debug" THEN Panic
    ELSE WrapI64(v.m, v.e + 10)

\* str::to_lowercase on the last character of the spec
Lower(c) ==
    IF c = "K" THEN "k" ELSE IF c = "M" THEN "m" ELSE IF c = "G" THEN "g"
    ELSE IF c = "B" THEN "b" ELSE c

\* str::parse::<i64> of the digits of a non-negative number n = m * 2^e: an
\* error when n is above i64::MAX
ParseI64(digits) ==
    IF FitsI64(digits.m, digits.e)
    THEN [ok |-> TRUE, v |-> [neg |-> FALSE, m |-> digits.m, e |-> digits.e]]
    ELSE [ok |-> FALSE]

\* Option::map of the multiplication
MapTimes(parsed, times, build) ==
    IF ~parsed.ok THEN NoMemory
    ELSE LET RECURSIVE Mul(_, _)
             Mul(v, k) == IF k = 0 THEN v ELSE Mul(Times1024(v, build), k - 1)
             r == Mul(parsed.v, times)
         IN  IF r = Panic THEN Panic ELSE SomeMemory(r)

\* a memory spec is its digits and its last character ("" when the spec
\* ends with a digit)
memory_bytes(memory, build) ==
    LET lower == [memory EXCEPT !.suffix = Lower(@)]
    IN  IF lower.suffix = "m" THEN MapTimes(ParseI64(lower.digits), 2, build)
        ELSE IF lower.suffix = "g"
        THEN MapTimes(ParseI64(lower.digits), 3, build)
        ELSE IF lower.suffix = "k"
        THEN MapTimes(ParseI64(lower.digits), 1, build)
        ELSE IF lower.suffix = "" THEN MapTimes(ParseI64(lower.digits), 0, build)
        ELSE NoMemory

\* Replace repeats the text of Create
ReplaceMemoryBytes(memory, build) == memory_bytes(memory, build)

\* ---- memory specs given to the parsers ----
\* the numbers m * 2^e written in the specs, 0 among them
Mantissas == {1, 3, 100, 512}
Exponents == {0, 1, 23, 33, 43, 53, 62, 63}
Numbers ==
    {[m |-> 0, e |-> 0]} \cup {[m |-> m, e |-> e] : m \in Mantissas, e \in Exponents}
Suffixes == {"", "k", "K", "m", "M", "g", "G", "b"}

MemoryArgs ==
    {[fn |-> "memory", cmd |-> c,
      memory |-> [digits |-> n, suffix |-> x]] :
        c \in {"Create", "Replace"}, n \in Numbers, x \in Suffixes}

ParseMemory ==
    /\ arg.fn = "memory" /\ ret = NoRet
    /\ \E build \in Builds :
        ret' = IF arg.cmd = "Create" THEN memory_bytes(arg.memory, build)
               ELSE ReplaceMemoryBytes(arg.memory, build)
    /\ UNCHANGED <<arg, chanVars, discVars, evVars, workerVars, dashVars>>
    /\ UNCHANGED <<appVars, logVars, detVars>>


\* ---- the response of a one-shot request (docker.rs, send_request) ----
Delimiter == <<"\r", "\n", "\r", "\n">>

\* the index of the first delimiter of s, 0 when it has none
FirstDelimiter(s) ==
    LET at == {i \in 1..Len(s) : StartsWith(Drop(s, i - 1), Delimiter)}
    IN  IF at = {} THEN 0 ELSE CHOOSE i \in at : \A j \in at : i <= j

\* splitn(2, "\r\n\r\n")
Splitn2(s) ==
    LET i == FirstDelimiter(s)
    IN  IF i = 0 THEN <<s>>
        ELSE <<SubSeq(s, 1, i - 1), Drop(s, i + Len(Delimiter) - 1)>>

Http11 == <<"H", "T", "T", "P", "/", "1", ".", "1">>
Http10 == <<"H", "T", "T", "P", "/", "1", ".", "0">>

SnippetLen == 100

OkBody(body) == [kind |-> "response", ok |-> TRUE, body |-> body]
InvalidResponse(snippet) ==
    [kind |-> "response", ok |-> FALSE,
     message |-> "Invalid response from Docker daemon: ", snippet |-> snippet]

send_request(response_str) ==
    LET parts == Splitn2(response_str)
    IN  IF Len(parts) < 2
        THEN IF \/ StartsWith(response_str, Http11 \o <<" ", "2", "0", "4">>)
                \/ StartsWith(response_str, Http11 \o <<" ", "3", "0", "4">>)
                \/ StartsWith(response_str, Http11 \o <<" ", "2", "0", "0">>)
             THEN OkBody(<<>>)
             ELSE InvalidResponse(Take(response_str, SnippetLen))
        ELSE OkBody(parts[2])

\* ---- responses given to send_request ----
StatusCodes ==
    {<<"2", "0", "0">>, <<"2", "0", "4">>, <<"3", "0", "4">>,
     <<"4", "0", "4">>, <<"5", "0", "0">>}

\* the header lines after the status line: none, or one long line
LongHeader == 120
Headers == {<<>>, <<"\r", "\n">> \o [i \in 1..LongHeader |-> "x"]}

\* what follows the headers: nothing, or delimiters and body pieces
Bodies ==
    {<<>>, Delimiter, Delimiter \o <<"b">>,
     Delimiter \o <<"b">> \o Delimiter \o <<"c">>}

ResponseArgs ==
    {[fn |-> "response", version |-> v, status |-> st, rest |-> b,
      response |-> v \o <<" ">> \o st \o h \o b] :
        v \in {Http11, Http10}, st \in StatusCodes, h \in Headers,
        b \in Bodies}

ParseResponse ==
    /\ arg.fn = "response" /\ ret = NoRet
    /\ ret' = send_request(arg.response)
    /\ UNCHANGED <<arg, chanVars, discVars, evVars, workerVars, dashVars>>
    /\ UNCHANGED <<appVars, logVars, detVars>>

\* ---- start, stop and restart of a container (docker.rs:255-271) ----
\* Ok(()) of a call that returns no value
OkUnit == [kind |-> "unit", ok |-> TRUE]

\* `self.send_request(&request).await?; Ok(())`: the error of send_request
\* is returned, its body is dropped
start_container(response_str) ==
    LET sent == send_request(response_str)
    IN  IF sent.ok THEN OkUnit ELSE sent

stop_container(response_str) ==
    LET sent == send_request(response_str)
    IN  IF sent.ok THEN OkUnit ELSE sent

restart_container(response_str) ==
    LET sent == send_request(response_str)
    IN  IF sent.ok THEN OkUnit ELSE sent

\* the daemon's answers to a start, stop or restart request
ControlArgs ==
    {[fn |-> "control", call |-> c, version |-> a.version,
      status |-> a.status, rest |-> a.rest, response |-> a.response] :
        c \in {"start", "stop", "restart"}, a \in ResponseArgs}

ControlContainer ==
    /\ arg.fn = "control" /\ ret = NoRet
    /\ ret' = CASE arg.call = "start" -> start_container(arg.response)
                [] arg.call = "stop" -> stop_container(arg.response)
                [] OTHER -> restart_container(arg.response)
    /\ UNCHANGED <<arg, chanVars, discVars, evVars, workerVars, dashVars>>
    /\ UNCHANGED <<appVars, logVars, detVars>>

\* ---- the parsing functions, each applied to one of its arguments ----
InitParse ==
    /\ InitTasks /\ InitDisc
    /\ operator = Bystander
    /\ arg \in PortArgs(MaxEntries) \cup MemoryArgs \cup ResponseArgs
                \cup ControlArgs
    /\ ret = NoRet

NextParse == ParsePorts \/ ParseMemory \/ ParseResponse \/ ControlContainer

SpecParse == InitParse /\ [][NextParse]_vars

\* C16 (refuted by Replace): once a port spec is parsed, every entry
\* host:container of it has a binding of host under container/tcp, every
\* bare entry p a binding of p under p/tcp, and each such container port is
\* in the port-binding map and in the exposed-ports map.
C16_EveryEntryBound ==
    (arg.fn = "ports" /\ ret # NoRet) =>
        \A i \in 1..Len(arg.entries) :
            LET key == Tcp(<<arg.entries[i].container>>)
            IN  /\ key \in ret.exposed_ports
                /\ key \in DOMAIN ret.port_bindings
                /\ \E j \in 1..Len(ret.port_bindings[key]) :
                       ret.port_bindings[key][j]
                           = PortBinding(<<arg.entries[i].host>>)

\* the same for the Create command alone
CreateEveryEntryBound ==
    (arg.fn = "ports" /\ arg.cmd = "Create") => C16_EveryEntryBound

\* the value n * 1024^k as mantissa and exponent
Bytes(digits, k) == [neg |-> FALSE, m |-> digits.m, e |-> digits.e + 10 * k]

UnitPower ==
    [x \in {"", "k", "m", "g"} |->
        IF x = "" THEN 0 ELSE IF x = "k" THEN 1 ELSE IF x = "m" THEN 2 ELSE 3]

\* C17 (refuted when n * unit is above i64::MAX): a memory spec n, nk, nm
\* or ng, the suffix in either case, is parsed to n, n*1024, n*1024^2 or
\* n*1024^3 bytes, by Create and by Replace.
C17_MemoryBytes ==
    (arg.fn = "memory" /\ ret # NoRet
        /\ Lower(arg.memory.suffix) \in DOMAIN UnitPower) =>
        ret = SomeMemory(Bytes(arg.memory.digits,
                               UnitPower[Lower(arg.memory.suffix)]))

\* the same for the specs whose number of bytes is at most i64::MAX
MemoryBytesInRange ==
    (arg.fn = "memory" /\ Lower(arg.memory.suffix) \in DOMAIN UnitPower
        /\ FitsI64(arg.memory.digits.m,
                   arg.memory.digits.e
                       + 10 * UnitPower[Lower(arg.memory.suffix)]))
        => C17_MemoryBytes

\* C20 (refuted by an HTTP/1.0 status line): the body is what follows the
\* first delimiter; without a delimiter the body is empty when the status
\* line is 204, 304 or 200, and otherwise the result is a protocol error
\* with at most the first 100 characters of the response.
C20_BodyAfterDelimiter ==
    (arg.fn = "response" /\ ret # NoRet) =>
        IF arg.rest # <<>>
        THEN ret = OkBody(Drop(arg.rest, Len(Delimiter)))
        ELSE IF arg.status \in {<<"2", "0", "4">>, <<"3", "0", "4">>,
                                <<"2", "0", "0">>}
        THEN ret = OkBody(<<>>)
        ELSE /\ ~ret.ok
             /\ Len(ret.snippet) <= SnippetLen
             /\ ret.snippet = Take(arg.response, SnippetLen)

\* the same for the responses whose status line starts with HTTP/1.1
Http11BodyAfterDelimiter ==
    (arg.fn = "response" /\ arg.version = Http11) => C20_BodyAfterDelimiter

\* ---------------------------------------------------------------------
\* Opening a stream (docker.rs:208-253, get_logs_stream, get_events_stream)
\* ---------------------------------------------------------------------
\* bytes the daemon has written on a connection before it closes it
MaxBytes == 6

RECURSIVE ByteSeqs(_, _)
ByteSeqs(alphabet, n) ==
    IF n = 0 THEN {<<>>}
    ELSE LET shorter == ByteSeqs(alphabet, n - 1)
         IN  shorter \cup {Append(s, b) : s \in shorter, b \in alphabet}

\* `headers.len() >= 4 && &headers[headers.len()-4..] == b"\r\n\r\n"`
HeadersEnd_AtFirstLineEnd(headers) ==
    Len(headers) >= 2
        /\ SubSeq(headers, Len(headers) - 1, Len(headers)) = <<"\r", "\n">>

HeadersEnd(headers) ==
    Len(headers) >= 4
        /\ SubSeq(headers, Len(headers) - 3, Len(headers)) = Delimiter

\* the loop: read_exact of one byte (an error at the end of the
\* connection, returned with `?`), push, test
RECURSIVE ConsumeHeaders(_, _)
ConsumeHeaders(conn, headers) ==
    IF conn = <<>> THEN [kind |-> "stream", ok |-> FALSE]
    ELSE LET pushed == Append(headers, Head(conn))
         IN  IF HeadersEnd(pushed)
             THEN [kind |-> "stream", ok |-> TRUE, headers |-> pushed,
                   stream |-> Tail(conn)]
             ELSE ConsumeHeaders(Tail(conn), pushed)

get_logs_stream(conn) == ConsumeHeaders(conn, <<>>)
get_events_stream(conn) == ConsumeHeaders(conn, <<>>)

StreamArgs(n) ==
    {[fn |-> "open", of |-> o, conn |-> c] :
        o \in {"logs", "events"}, c \in ByteSeqs({"\r", "\n", "x"}, n)}

OpenStream ==
    /\ arg.fn = "open" /\ ret = NoRet
    /\ ret' = IF arg.of = "logs" THEN get_logs_stream(arg.conn)
              ELSE get_events_stream(arg.conn)
    /\ UNCHANGED <<arg, chanVars, discVars, evVars, workerVars, dashVars>>
    /\ UNCHANGED <<appVars, logVars, detVars>>

InitStream ==
    /\ InitTasks /\ InitDisc
    /\ operator = Bystander
    /\ arg \in StreamArgs(MaxBytes)
    /\ ret = NoRet

NextStream == OpenStream

SpecStream == InitStream /\ [][NextStream]_vars

\* C21: opening a log or event stream takes from the connection the bytes
\* up to and including the first delimiter and no more, so that the handle
\* starts at the byte after it; a connection that ends before a delimiter
\* gives an error.
C21_ConsumesThroughDelimiter ==
    (arg.fn = "open" /\ ret # NoRet) =>
        LET i == FirstDelimiter(arg.conn)
        IN  IF i = 0 THEN ~ret.ok
            ELSE /\ ret.ok
                 /\ ret.headers = SubSeq(arg.conn, 1, i + Len(Delimiter) - 1)
                 /\ ret.stream = Drop(arg.conn, i + Len(Delimiter) - 1)

\* a connection with a line end before the delimiter and a byte after it
C21_Witness ==
    /\ arg.fn = "open"
    /\ arg.conn = <<"\r", "\n", "\r", "\n", "\r", "x">>
    /\ ret # NoRet /\ ret.ok /\ ret.stream = <<"\r", "x">>

\* ---------------------------------------------------------------------
\* The log subtask on its stream (main.rs:170-213)
\* ---------------------------------------------------------------------
\* A byte is a number 0..255.  A stream, a payload and a line are kept as
\* runs: [b |-> byte, n |-> count] stands for n bytes b, so that a payload
\* of ten million bytes is one or two runs.
Run(b, n) == [b |-> b, n |-> n]

\* the runs of a sequence of bytes
Runs(bytes) == [i \in 1..Len(bytes) |-> Run(bytes[i], 1)]

\* one form for each text: no empty run, no two neighbours of one byte
RECURSIVE Norm(_)
Norm(runs) ==
    IF runs = <<>> THEN <<>>
    ELSE IF Head(runs).n = 0 THEN Norm(Tail(runs))
    ELSE LET rest == Norm(Tail(runs))
         IN  IF rest # <<>> /\ Head(rest).b = Head(runs).b
             THEN <<Run(Head(runs).b, Head(runs).n + Head(rest).n)>>
                      \o Tail(rest)
             ELSE <<Head(runs)>> \o rest

RECURSIVE Total(_)
Total(runs) == IF runs = <<>> THEN 0 ELSE Head(runs).n + Total(Tail(runs))

RECURSIVE TakeRuns(_, _)
TakeRuns(runs, k) ==
    IF k = 0 \/ runs = <<>> THEN <<>>
    ELSE IF Head(runs).n <= k
    THEN <<Head(runs)>> \o TakeRuns(Tail(runs), k - Head(runs).n)
    ELSE <<Run(Head(runs).b, k)>>

RECURSIVE DropRuns(_, _)
DropRuns(runs, k) ==
    IF k = 0 \/ runs = <<>> THEN runs
    ELSE IF Head(runs).n <= k THEN DropRuns(Tail(runs), k - Head(runs).n)
    ELSE <<Run(Head(runs).b, Head(runs).n - k)>> \o Tail(runs)

\* the bytes of a text of a few bytes
RECURSIVE Expand(_)
Expand(runs) ==
    IF runs = <<>> THEN <<>>
    ELSE IF Head(runs).n = 0 THEN Expand(Tail(runs))
    ELSE <<Head(runs).b>>
             \o Expand(<<Run(Head(runs).b, Head(runs).n - 1)>> \o Tail(runs))

\* AsyncReadExt::read_exact of k bytes: an error, with the stream used up,
\* when fewer than k bytes come before its end
ReadExact(stream, k) ==
    IF Total(stream) < k THEN [ok |-> FALSE, rest |-> <<>>]
    ELSE [ok |-> TRUE, data |-> Norm(TakeRuns(stream, k)),
          rest |-> Norm(DropRuns(stream, k))]

\* String::from_utf8_lossy for the bytes of the streams tried (ASCII, the
\* lead byte of a two-byte character and continuation bytes): an ASCII
\* byte and a lead byte with its continuation byte are kept, any other
\* byte becomes U+FFFD (EF BF BD)
IsAscii(b) == b < 128
IsLead2(b) == b >= 194 /\ b <= 223
IsCont(b) == b >= 128 /\ b <= 191
Replacement == <<Run(239, 1), Run(191, 1), Run(189, 1)>>

RECURSIVE Lossy(_)
Lossy(runs) ==
    IF runs = <<>> THEN <<>>
    ELSE LET h == Head(runs)
             after == IF h.n > 1 THEN <<Run(h.b, h.n - 1)>> \o Tail(runs)
                      ELSE Tail(runs)
         IN  IF h.n = 0 THEN Lossy(Tail(runs))
             ELSE IF IsAscii(h.b) THEN <<h>> \o Lossy(Tail(runs))
             ELSE IF IsLead2(h.b) /\ after # <<>> /\ IsCont(Head(after).b)
             THEN <<Run(h.b, 1), Run(Head(after).b, 1)>>
                      \o Lossy(IF Head(after).n > 1
                               THEN <<Run(Head(after).b, Head(after).n - 1)>>
                                        \o Tail(after)
                               ELSE Tail(after))
             ELSE Replacement \o Lossy(after)

from_utf8_lossy(runs) == Norm(Lossy(runs))

LF == 10
CR == 13

\* a line without its "\r" when it ended with "\r\n"
StripCr(line) ==
    IF line # <<>> /\ line[Len(line)].b = CR
    THEN Norm(SubSeq(line, 1, Len(line) - 1)
                  \o <<Run(CR, line[Len(line)].n - 1)>>)
    ELSE line

\* str::lines: the pieces that end with "\n" or "\r\n", without the line
\* end, and the piece after the last line end when it is not empty
RECURSIVE LinesFrom(_, _, _)
LinesFrom(runs, line, out) ==
    IF runs = <<>> THEN (IF line = <<>> THEN out ELSE Append(out, line))
    ELSE LET h == Head(runs)
         IN  IF h.b = LF
             THEN LinesFrom(Norm(<<Run(LF, h.n - 1)>> \o Tail(runs)), <<>>,
                            Append(out, StripCr(line)))
             ELSE LinesFrom(Tail(runs), Norm(line \o <<h>>), out)

Lines(text) == LinesFrom(Norm(text), <<>>, <<>>)

\* str::split_inclusive('\n'): the pieces with their "\n", and the piece
\* after the last "\n" when it is not empty
RECURSIVE SplitInclusiveFrom(_, _, _)
SplitInclusiveFrom(runs, piece, out) ==
    IF runs = <<>> THEN (IF piece = <<>> THEN out ELSE Append(out, piece))
    ELSE LET h == Head(runs)
         IN  IF h.b = LF
             THEN SplitInclusiveFrom(Norm(<<Run(LF, h.n - 1)>> \o Tail(runs)),
                                     <<>>,
                                     Append(out, Norm(piece \o <<Run(LF, 1)>>)))
             ELSE SplitInclusiveFrom(Tail(runs), Norm(piece \o <<h>>), out)

SplitInclusive(text) == SplitInclusiveFrom(Norm(text), <<>>, <<>>)

\* u32::from_be_bytes of header[4..8]; the streams tried keep header[4]
\* below 128
Size(header) ==
    ((header[5] * 256 + header[6]) * 256 + header[7]) * 256 + header[8]

SanityCeiling == 10000000
HeaderLen == 8
ReadBuffer == 1024

\* header[0] <= 2 && header[1] == 0 && header[2] == 0 && header[3] == 0
IsMultiplexed(header) ==
    header[1] <= 2 /\ header[2] = 0 /\ header[3] = 0 /\ header[4] = 0

\* the subtask between two reads: where it is, what is left of the stream,
\* and the strings it has sent on tx_logs, in order
LogState(pc, stream, emitted) ==
    [kind |-> "logs", pc |-> pc, stream |-> stream, emitted |-> emitted]

\* main.rs:171-185, 194-196  the first eight bytes, and the first frame or
\* the first chunk of raw text
AfterFirstHeader(stream) ==
    LET r == ReadExact(stream, HeaderLen)
    IN  IF ~r.ok THEN LogState("done", <<>>, <<>>)
        ELSE LET header == Expand(r.data)
             IN  IF IsMultiplexed(header)
                 THEN IF Size(header) < SanityCeiling
                      THEN LET p == ReadExact(r.rest, Size(header))
                           IN  IF p.ok
                               THEN LogState("frames", p.rest,
                                             Lines(from_utf8_lossy(p.data)))
                               ELSE LogState("frames", <<>>, <<>>)
                      ELSE LogState("frames", r.rest, <<>>)
                 ELSE LogState("raw", r.rest, <<from_utf8_lossy(r.data)>>)

\* main.rs:186-193  one turn of the loop over the later frames
AfterFrame(st) ==
    LET r == ReadExact(st.stream, HeaderLen)
    IN  IF ~r.ok THEN LogState("done", <<>>, st.emitted)
        ELSE IF Size(Expand(r.data)) > SanityCeiling
        THEN LogState("done", r.rest, st.emitted)
        ELSE LET p == ReadExact(r.rest, Size(Expand(r.data)))
             IN  IF ~p.ok THEN LogState("done", <<>>, st.emitted)
                 ELSE LogState("frames", p.rest,
                               st.emitted \o Lines(from_utf8_lossy(p.data)))

\* main.rs:198-209  one turn of the loop over raw text: a read gives n
\* bytes, 1 <= n <= 1024, or 0 at the end of the stream
AfterRawRead(st, n) ==
    IF n = 0 THEN LogState("done", <<>>, st.emitted)
    ELSE LogState("raw", Norm(DropRuns(st.stream, n)),
                  st.emitted
                      \o SplitInclusive(from_utf8_lossy(TakeRuns(st.stream, n))))

ReadSizes(stream) ==
    IF stream = <<>> THEN {0}
    ELSE 1..(IF Total(stream) < ReadBuffer THEN Total(stream) ELSE ReadBuffer)

LogFirstHeader ==
    /\ arg.fn = "logs" /\ ret = NoRet
    /\ ret' = AfterFirstHeader(arg.stream)
    /\ UNCHANGED <<arg, chanVars, discVars, evVars, workerVars, dashVars>>
    /\ UNCHANGED <<appVars, logVars, detVars>>

LogFrame ==
    /\ arg.fn = "logs" /\ ret # NoRet /\ ret.pc = "frames"
    /\ ret' = AfterFrame(ret)
    /\ UNCHANGED <<arg, chanVars, discVars, evVars, workerVars, dashVars>>
    /\ UNCHANGED <<appVars, logVars, detVars>>

LogRawRead ==
    /\ arg.fn = "logs" /\ ret # NoRet /\ ret.pc = "raw"
    /\ \E n \in ReadSizes(ret.stream) : ret' = AfterRawRead(ret, n)
    /\ UNCHANGED <<arg, chanVars, discVars, evVars, workerVars, dashVars>>
    /\ UNCHANGED <<appVars, logVars, detVars>>

\* ---- the log streams given to the subtask ----
SizeBytes(size) ==
    <<size \div 16777216, (size \div 65536) % 256, (size \div 256) % 256,
      size % 256>>

FrameHeader(kind, size) == <<kind, 0, 0, 0>> \o SizeBytes(size)

\* a valid frame: the header of its kind and of the length of its payload,
\* then the payload
Frame(kind, payload) ==
    [kind |-> kind, size |-> Total(payload), payload |-> Norm(payload)]

FrameBytes(f) == Runs(FrameHeader(f.kind, f.size)) \o f.payload

\* "b\n" as a frame of stdout
InnerFrame == FrameBytes(Frame(1, Runs(<<98, LF>>)))

\* payloads: short texts, a text of exactly the ceiling, and two texts of
\* one byte more, the second of which starts with the bytes of a frame
Payloads ==
    {<<>>,
     Runs(<<97, LF>>),
     Runs(<<97, LF, 98>>),
     Runs(<<98, CR, LF, LF>>),
     <<Run(97, SanityCeiling - 1), Run(LF, 1)>>,
     <<Run(97, SanityCeiling), Run(LF, 1)>>,
     InnerFrame \o <<Run(97, SanityCeiling + 1 - Total(InnerFrame))>>}

Frames == {Frame(k, p) : k \in {0, 1, 2}, p \in Payloads}

\* frames of a stream
MaxFrames == 2

RECURSIVE FrameSeqs(_)
FrameSeqs(n) ==
    IF n = 0 THEN {<<>>}
    ELSE LET shorter == FrameSeqs(n - 1)
         IN  shorter \cup {Append(fs, f) : fs \in shorter, f \in Frames}

RECURSIVE FramesBytes(_)
FramesBytes(fs) ==
    IF fs = <<>> THEN <<>> ELSE FrameBytes(Head(fs)) \o FramesBytes(Tail(fs))

\* raw text: the first eight bytes, ASCII or ending inside a two-byte
\* character, then up to MaxTail bytes; and texts of fewer than eight bytes
MaxTail == 2

RawHeads ==
    {<<97, 97, 97, 97, 97, 97, 97, LF>>,
     <<97, LF, 97, 97, 97, 97, 97, 97>>,
     <<3, 0, 0, 0, 0, 0, 0, 1>>,
     <<97, 97, 97, 97, 97, 97, 195, 169>>,
     <<97, 97, 97, 97, 97, 97, 97, 195>>}

RawTexts(m) ==
    {h \o t : h \in RawHeads, t \in ByteSeqs({97, LF, 169}, m)}
    \cup ByteSeqs({97, LF}, 3)

LogArgs(n, m) ==
    {[fn |-> "logs", raw |-> FALSE, frames |-> fs,
      stream |-> Norm(FramesBytes(fs))] : fs \in FrameSeqs(n)}
    \cup {[fn |-> "logs", raw |-> TRUE, frames |-> <<>>,
           stream |-> Norm(Runs(t))] : t \in RawTexts(m)}

InitFrames ==
    /\ InitTasks /\ InitDisc
    /\ operator = Bystander
    /\ arg \in LogArgs(MaxFrames, MaxTail)
    /\ ret = NoRet

NextFrames == LogFirstHeader \/ LogFrame \/ LogRawRead

SpecFrames == InitFrames /\ [][NextFrames]_vars

RECURSIVE FrameLines(_)
FrameLines(fs) ==
    IF fs = <<>> THEN <<>> ELSE Lines(Head(fs).payload) \o FrameLines(Tail(fs))

RECURSIVE Concat(_)
Concat(texts) ==
    IF texts = <<>> THEN <<>> ELSE Norm(Head(texts) \o Concat(Tail(texts)))

Finished == arg.fn = "logs" /\ ret # NoRet /\ ret.pc = "done"

\* C22 (refuted by a first frame of exactly 10,000,000 bytes): of a stream
\* of valid frames, none above the ceiling, the subtask has emitted at the
\* end the lines of the first payload, then those of the second, and so
\* on.
C22_FrameLinesInOrder ==
    (Finished /\ ~arg.raw
        /\ \A i \in 1..Len(arg.frames) : arg.frames[i].size <= SanityCeiling)
        => ret.emitted = FrameLines(arg.frames)

\* the same for frames below the ceiling
FramesBelowCeilingInOrder ==
    (Finished /\ ~arg.raw
        /\ \A i \in 1..Len(arg.frames) : arg.frames[i].size < SanityCeiling)
        => ret.emitted = FrameLines(arg.frames)

\* C23 (refuted by a two-byte character across the eighth byte): of a
\* stream of raw text, valid UTF-8 of eight bytes or more, the strings
\* emitted, put together, are the stream.
C23_RawTextComplete ==
    (Finished /\ arg.raw /\ Total(arg.stream) >= HeaderLen
        /\ from_utf8_lossy(arg.stream) = arg.stream)
        => Concat(ret.emitted) = arg.stream

\* the same for the texts of fewer than eight bytes (refuted too: nothing
\* of them is emitted)
ShortTextComplete ==
    (Finished /\ arg.raw /\ Total(arg.stream) < HeaderLen)
        => Concat(ret.emitted) = arg.stream

\* the same for ASCII text of eight bytes or more
AsciiTextComplete ==
    (Finished /\ arg.raw /\ Total(arg.stream) >= HeaderLen
        /\ \A i \in 1..Len(arg.stream) : IsAscii(arg.stream[i].b))
        => Concat(ret.emitted) = arg.stream

\* the frames before the first one above the ceiling
RECURSIVE BeforeCorrupt(_)
BeforeCorrupt(fs) ==
    IF fs = <<>> \/ Head(fs).size > SanityCeiling THEN <<>>
    ELSE <<Head(fs)>> \o BeforeCorrupt(Tail(fs))

IsPrefix(s, t) == Len(s) <= Len(t) /\ SubSeq(t, 1, Len(s)) = s

\* C24 (refuted by a first frame above the ceiling): when a frame declares
\* a length above the ceiling, nothing of it and nothing after it is
\* emitted: all that is emitted are lines of the frames before it.
C24_CorruptFrameEndsStream ==
    (arg.fn = "logs" /\ ret # NoRet /\ ~arg.raw
        /\ \E i \in 1..Len(arg.frames) : arg.frames[i].size > SanityCeiling)
        => IsPrefix(ret.emitted, FrameLines(BeforeCorrupt(arg.frames)))

\* the same when the first frame is not above the ceiling
LaterCorruptFrameEndsStream ==
    (arg.fn = "logs" /\ ~arg.raw /\ arg.frames # <<>>
        /\ arg.frames[1].size <= SanityCeiling)
        => C24_CorruptFrameEndsStream

\* ---------------------------------------------------------------------
\* The rate calculators (ui.rs:1127-1143, ui/util.rs:3-17, main.rs:900-933)
\* ---------------------------------------------------------------------
\* Option<T>
NoneOf == [some |-> FALSE]
Some(v) == [some |-> TRUE, v |-> v]
UnwrapOr(o, d) == IF o.some THEN o.v ELSE d

\* An f64 result is kept as a fraction in lowest terms.  The counters tried
\* are far below 2^53, where `as f64` is exact.
RECURSIVE Gcd(_, _)
Gcd(a, b) == IF b = 0 THEN a ELSE Gcd(b, a % b)

Frac(n, d) ==
    IF n = 0 THEN [neg |-> FALSE, n |-> 0, d |-> 1]
    ELSE LET a == IF n < 0 THEN 0 - n ELSE n
             g == Gcd(a, d)
         IN  [neg |-> n < 0, n |-> a \div g, d |-> d \div g]

Zero == Frac(0, 1)

\* `.percpu_usage.as_ref().map(|v| v.len()).unwrap_or(1)`
num_cpus(stats) ==
    IF stats.cpu_stats.percpu_usage.some
    THEN Len(stats.cpu_stats.percpu_usage.v)
    ELSE 1

\* `if system_delta > 0.0 && cpu_delta > 0.0 { (cpu_delta / system_delta)
\* * num_cpus * 100.0 } else { 0.0 }`
Percent_Unguarded(cpu_delta, system_delta, cpus) ==
    IF system_delta # 0
    THEN Frac((IF system_delta < 0 THEN 0 - 1 ELSE 1) * cpu_delta * cpus * 100,
              IF system_delta < 0 THEN 0 - system_delta ELSE system_delta)
    ELSE Zero

Percent(cpu_delta, system_delta, cpus) ==
    IF system_delta > 0 /\ cpu_delta > 0
    THEN Frac(cpu_delta * cpus * 100, system_delta)
    ELSE Zero

\* the counters of the sample before, in ui.rs: those of the previous
\* sample, or the pre-sample counters of the current one
PrevCounters(stats, prev_stats) ==
    IF prev_stats.some
    THEN [cpu |-> prev_stats.v.cpu_stats.total_usage,
          sys |-> UnwrapOr(prev_stats.v.cpu_stats.system_cpu_usage, 0)]
    ELSE [cpu |-> stats.precpu_stats.total_usage,
          sys |-> UnwrapOr(stats.precpu_stats.system_cpu_usage, 0)]

\* ui.rs:1127-1143
UiCalculateCpuUsage(stats, prev_stats) ==
    LET prev == PrevCounters(stats, prev_stats)
    IN  Percent(stats.cpu_stats.total_usage - prev.cpu,
                UnwrapOr(stats.cpu_stats.system_cpu_usage, 0) - prev.sys,
                num_cpus(stats))

\* ui/util.rs:3-17
UtilCalculateCpuUsage(stats, previous_stats) ==
    IF previous_stats.some
    THEN Percent(stats.cpu_stats.total_usage
                     - previous_stats.v.cpu_stats.total_usage,
                 UnwrapOr(stats.cpu_stats.system_cpu_usage, 0)
                     - UnwrapOr(previous_stats.v.cpu_stats.system_cpu_usage, 0),
                 num_cpus(stats))
    ELSE Zero

\* `mod ui;` (main.rs:22) has two files, ui.rs and ui/mod.rs, and each has a
\* calculate_cpu_usage: ui::calculate_cpu_usage (main.rs:901) is either
UiModules == {"ui.rs", "ui/mod.rs"}

calculate_cpu_usage(module, stats, prev_stats) ==
    IF module = "ui.rs" THEN UiCalculateCpuUsage(stats, prev_stats)
    ELSE UtilCalculateCpuUsage(stats, prev_stats)

\* ---- the samples given to the calculators ----
CpuUsages == {1000, 1200, 1500}
SystemUsages == {NoneOf, Some(10000), Some(10500)}
PerCpu == {NoneOf, Some(<<>>), Some(<<7>>), Some(<<1, 2, 3, 4>>)}

Counters == [total_usage : CpuUsages, system_cpu_usage : SystemUsages]

Samples ==
    {[cpu_stats |-> [total_usage |-> c.total_usage,
                     system_cpu_usage |-> c.system_cpu_usage,
                     percpu_usage |-> p],
      precpu_stats |-> pre] : c \in Counters, p \in PerCpu, pre \in Counters}

\* a previous sample: only its counters are read
PrevSamples ==
    {NoneOf} \cup
    {Some([cpu_stats |-> [total_usage |-> c.total_usage,
                          system_cpu_usage |-> c.system_cpu_usage,
                          percpu_usage |-> NoneOf],
           precpu_stats |-> c]) : c \in Counters}

CpuArgs ==
    {[fn |-> "cpu", module |-> m, stats |-> s, prev_stats |-> p] :
        m \in UiModules, s \in Samples, p \in PrevSamples}

CalcCpu ==
    /\ arg.fn = "cpu" /\ ret = NoRet
    /\ ret' = [kind |-> "cpu",
               percent |-> calculate_cpu_usage(arg.module, arg.stats,
                                               arg.prev_stats)]
    /\ UNCHANGED <<arg, chanVars, discVars, evVars, workerVars, dashVars>>
    /\ UNCHANGED <<appVars, logVars, detVars>>

\* main.rs:903-930  the sum of one counter over the interfaces of a map
RECURSIVE SumOver(_, _)
SumOver(nets, counter) ==
    IF DOMAIN nets = {} THEN 0
    ELSE LET i == CHOOSE i \in DOMAIN nets : TRUE
         IN  nets[i][counter]
                 + SumOver([j \in DOMAIN nets \ {i} |-> nets[j]], counter)

\* `(total_rx - prev_rx, total_tx - prev_tx)`
Rates_Clamped(total_rx, total_tx, prev_rx, prev_tx) ==
    [rx |-> IF total_rx > prev_rx THEN total_rx - prev_rx ELSE 0,
     tx |-> IF total_tx > prev_tx THEN total_tx - prev_tx ELSE 0]

Rates(total_rx, total_tx, prev_rx, prev_tx) ==
    [rx |-> total_rx - prev_rx, tx |-> total_tx - prev_tx]

NoRates == [rx |-> 0, tx |-> 0]

network_rates(stats, previous_stats) ==
    IF stats.networks.some
    THEN IF previous_stats.some
         THEN IF previous_stats.v.networks.some
              THEN Rates(SumOver(stats.networks.v, "rx_bytes"),
                         SumOver(stats.networks.v, "tx_bytes"),
                         SumOver(previous_stats.v.networks.v, "rx_bytes"),
                         SumOver(previous_stats.v.networks.v, "tx_bytes"))
              ELSE NoRates
         ELSE NoRates
    ELSE NoRates

\* ---- the network maps given to the calculator ----
Net(rx, tx) == [rx_bytes |-> rx, tx_bytes |-> tx]

Networks ==
    {NoneOf, Some(<<>>)}
    \cup {Some([i \in {"eth0"} |-> n]) : n \in {Net(100, 10), Net(300, 40)}}
    \cup {Some([i \in {"eth0", "eth1"} |->
                   IF i = "eth0" THEN n ELSE m]) :
             n \in {Net(100, 10), Net(300, 40)},
             m \in {Net(50, 5), Net(60, 0)}}

NetArgs ==
    {[fn |-> "net", stats |-> [networks |-> n], prev_stats |-> p] :
        n \in Networks,
        p \in {NoneOf} \cup {Some([networks |-> m]) : m \in Networks}}

CalcNet ==
    /\ arg.fn = "net" /\ ret = NoRet
    /\ ret' = [kind |-> "net",
               rates |-> network_rates(arg.stats, arg.prev_stats)]
    /\ UNCHANGED <<arg, chanVars, discVars, evVars, workerVars, dashVars>>
    /\ UNCHANGED <<appVars, logVars, detVars>>

InitRates ==
    /\ InitTasks /\ InitDisc
    /\ operator = Bystander
    /\ arg \in CpuArgs \cup NetArgs
    /\ ret = NoRet

NextRates == CalcCpu \/ CalcNet

SpecRates == InitRates /\ [][NextRates]_vars

\* the formula of the spec for the counters before and now and a number of
\* cores
CpuFormula(cpu_now, sys_now, cpu_before, sys_before, cores) ==
    IF cpu_now - cpu_before > 0 /\ sys_now - sys_before > 0
    THEN Frac((cpu_now - cpu_before) * cores * 100, sys_now - sys_before)
    ELSE Zero

\* the length of the breakdown, and 1 without a breakdown
Cores(stats) ==
    IF ~stats.cpu_stats.percpu_usage.some
           \/ stats.cpu_stats.percpu_usage.v = <<>>
    THEN 1
    ELSE Len(stats.cpu_stats.percpu_usage.v)

CpuDone == arg.fn = "cpu" /\ ret # NoRet

HasBreakdownOrNone ==
    ~arg.stats.cpu_stats.percpu_usage.some
        \/ arg.stats.cpu_stats.percpu_usage.v # <<>>

\* C25: with a previous sample, cpu_percent is (cpu_delta / system_delta)
\* * cores * 100 when both deltas are positive and 0 otherwise (for a
\* breakdown that is absent or not empty, and samples that carry the system
\* counter).
C25_CpuFormula ==
    (CpuDone /\ arg.prev_stats.some /\ HasBreakdownOrNone
        /\ arg.stats.cpu_stats.system_cpu_usage.some
        /\ arg.prev_stats.v.cpu_stats.system_cpu_usage.some)
        => ret.percent
               = CpuFormula(arg.stats.cpu_stats.total_usage,
                            arg.stats.cpu_stats.system_cpu_usage.v,
                            arg.prev_stats.v.cpu_stats.total_usage,
                            arg.prev_stats.v.cpu_stats.system_cpu_usage.v,
                            Cores(arg.stats))

\* cpu 1000 then 1500, system 10000 then 10500, 4 cores: 400
C25_Witness ==
    /\ CpuDone /\ arg.prev_stats.some
    /\ arg.prev_stats.v.cpu_stats.total_usage = 1000
    /\ arg.prev_stats.v.cpu_stats.system_cpu_usage = Some(10000)
    /\ arg.stats.cpu_stats.total_usage = 1500
    /\ arg.stats.cpu_stats.system_cpu_usage = Some(10500)
    /\ arg.stats.cpu_stats.percpu_usage = Some(<<1, 2, 3, 4>>)
    /\ ret.percent = Frac(400, 1)

\* C26 (refuted by ui/util.rs): without a previous sample, cpu_percent is
\* the formula on the current counters and the pre-sample counters of the
\* current sample.
C26_PreSampleIsPrevious ==
    (CpuDone /\ ~arg.prev_stats.some /\ HasBreakdownOrNone
        /\ arg.stats.cpu_stats.system_cpu_usage.some
        /\ arg.stats.precpu_stats.system_cpu_usage.some)
        => ret.percent
               = CpuFormula(arg.stats.cpu_stats.total_usage,
                            arg.stats.cpu_stats.system_cpu_usage.v,
                            arg.stats.precpu_stats.total_usage,
                            arg.stats.precpu_stats.system_cpu_usage.v,
                            Cores(arg.stats))

\* the same for the function of ui.rs
UiPreSampleIsPrevious ==
    (arg.fn = "cpu" /\ arg.module = "ui.rs") => C26_PreSampleIsPrevious

\* C27 (refuted by an empty breakdown): the core count in cpu_percent is
\* the length of the breakdown and at least 1: without a breakdown and with
\* an empty one the result is that of one core.
C27_AtLeastOneCore ==
    (CpuDone /\ arg.prev_stats.some
        /\ (~arg.stats.cpu_stats.percpu_usage.some
                \/ arg.stats.cpu_stats.percpu_usage.v = <<>>)
        /\ arg.stats.cpu_stats.system_cpu_usage.some
        /\ arg.prev_stats.v.cpu_stats.system_cpu_usage.some)
        => ret.percent
               = CpuFormula(arg.stats.cpu_stats.total_usage,
                            arg.stats.cpu_stats.system_cpu_usage.v,
                            arg.prev_stats.v.cpu_stats.total_usage,
                            arg.prev_stats.v.cpu_stats.system_cpu_usage.v,
                            Cores(arg.stats))

\* the sums of the claim: over no interface, 0
SumOrZero(sample, counter) ==
    IF sample.networks.some THEN SumOver(sample.networks.v, counter) ELSE 0

NetDone == arg.fn = "net" /\ ret # NoRet

\* C28 as stated (refuted by a sample without a network map): with a
\* previous sample each rate is the sum over the interfaces of the current
\* sample minus the sum over those of the previous one, and without one
\* both rates are 0.
C28_RateIsDifference ==
    NetDone =>
        IF arg.prev_stats.some
        THEN /\ ret.rates.rx = SumOrZero(arg.stats, "rx_bytes")
                                   - SumOrZero(arg.prev_stats.v, "rx_bytes")
             /\ ret.rates.tx = SumOrZero(arg.stats, "tx_bytes")
                                   - SumOrZero(arg.prev_stats.v, "tx_bytes")
        ELSE ret.rates = NoRates

BothHaveNetworks ==
    arg.prev_stats.some /\ arg.stats.networks.some
        /\ arg.prev_stats.v.networks.some

\* C28, amended: when the current and the previous sample both carry a
\* network map, each rate is the difference of the sums, negative or not;
\* in every other case both rates are 0.
C28_RateIsDifferenceOfMaps ==
    NetDone =>
        IF BothHaveNetworks
        THEN /\ ret.rates.rx = SumOver(arg.stats.networks.v, "rx_bytes")
                 - SumOver(arg.prev_stats.v.networks.v, "rx_bytes")
             /\ ret.rates.tx = SumOver(arg.stats.networks.v, "tx_bytes")
                 - SumOver(arg.prev_stats.v.networks.v, "tx_bytes")
        ELSE ret.rates = NoRates

\* two interfaces before, one now: both rates are negative
C28_Witness ==
    /\ NetDone /\ BothHaveNetworks
    /\ DOMAIN arg.prev_stats.v.networks.v = {"eth0", "eth1"}
    /\ DOMAIN arg.stats.networks.v = {"eth0"}
    /\ ret.rates = [rx |-> 100 - 360, tx |-> 10 - 40]

\* the five channels the tick reads are empty after it
TickDrainsAll ==
    /\ containersQ' = <<>> /\ detailsQ' = <<>> /\ logQ' = <<>>
    /\ resultQ' = <<>> /\ janitorQ' = <<>>

\* C29 (refuted by the action results): a tick of the dashboard consumes
\* every message that was waiting on the five channels when it began.
C29_TickConsumesPending == [][DashTick => TickDrainsAll]_vars

\* ---------------------------------------------------------------------
\* A snapshot taken in by the dashboard (app.rs:293-307, main.rs:875-886)
\* ---------------------------------------------------------------------
\* A container of a snapshot: its id, the rank of its first name in the
\* order of strings, and its state.
StateRank == [s \in {"exited", "running"} |-> IF s = "exited" THEN 1 ELSE 2]

\* `containers.retain(|c| c.state == "running")`
Retain(containers) == SelectSeq(containers, LAMBDA c : c.state = "running")

\* slice::sort_by, a stable sort, by the key of the configuration
SortKey(c, default_sort) ==
    IF default_sort = "name" THEN c.name
    ELSE IF default_sort = "status" THEN StateRank[c.state]
    ELSE 0

RECURSIVE InsertSorted(_, _, _)
InsertSorted(sorted, c, default_sort) ==
    IF sorted = <<>> THEN <<c>>
    ELSE IF SortKey(c, default_sort)
                < SortKey(sorted[Len(sorted)], default_sort)
    THEN Append(InsertSorted(SubSeq(sorted, 1, Len(sorted) - 1), c,
                             default_sort),
                sorted[Len(sorted)])
    ELSE Append(sorted, c)

RECURSIVE SortBy(_, _)
SortBy(containers, default_sort) ==
    IF containers = <<>> THEN <<>>
    ELSE InsertSorted(SortBy(SubSeq(containers, 1, Len(containers) - 1),
                             default_sort),
                      containers[Len(containers)], default_sort)

\* App::update_containers
update_containers(config, containers) ==
    SortBy(IF config.show_all_containers THEN containers
           ELSE Retain(containers),
           config.default_sort)

\* main.rs:876-880  the list is replaced; selected_index is kept, and
\* pulled back to the last row when it is past the end
TakeSnapshot(config, selected, containers) ==
    LET cs == update_containers(config, containers)
    IN  [kind |-> "app", containers |-> cs,
         selected_index |-> IF selected >= Len(cs) /\ cs # <<>>
                            THEN Len(cs) - 1
                            ELSE selected]

\* ---- the snapshots given to the dashboard ----
\* containers of a snapshot
MaxContainers == 2

ContainerIds == {"a", "b", "c"}
NameRank ==
    [i \in ContainerIds |-> IF i = "a" THEN 2 ELSE IF i = "b" THEN 1 ELSE 3]

\* the lists of at most n containers of different ids, in any order and
\* in any states
Ids(containers) == {containers[k].id : k \in 1..Len(containers)}

RECURSIVE Snapshots(_)
Snapshots(n) ==
    IF n = 0 THEN {<<>>}
    ELSE LET shorter == Snapshots(n - 1)
         IN  shorter \cup
             {Append(u[1], [id |-> u[2], name |-> NameRank[u[2]],
                            state |-> u[3]]) :
                 u \in {v \in shorter \X ContainerIds \X {"exited", "running"} :
                           v[2] \notin Ids(v[1])}}

Configs ==
    [show_all_containers : BOOLEAN, default_sort : {"name", "status", "none"}]

\* the list on display is one that update_containers has made, and the
\* selection is one of its rows
Rows(containers) ==
    0..(IF containers = <<>> THEN 0 ELSE Len(containers) - 1)

SnapshotArgs(n) ==
    UNION {{[fn |-> "snapshot", config |-> cfg,
             containers |-> update_containers(cfg, old),
             selected_index |-> k, snapshot |-> new] :
               k \in Rows(update_containers(cfg, old)),
               new \in Snapshots(n)} :
           cfg \in Configs, old \in Snapshots(n)}

SnapshotIn ==
    /\ arg.fn = "snapshot" /\ ret = NoRet
    /\ ret' = TakeSnapshot(arg.config, arg.selected_index, arg.snapshot)
    /\ UNCHANGED <<arg, chanVars, discVars, evVars, workerVars, dashVars>>
    /\ UNCHANGED <<appVars, logVars, detVars>>

InitSnapshot ==
    /\ InitTasks /\ InitDisc
    /\ operator = Bystander
    /\ arg \in SnapshotArgs(MaxContainers)
    /\ ret = NoRet

NextSnapshot == SnapshotIn

SpecSnapshot == InitSnapshot /\ [][NextSnapshot]_vars

\* C30 (refuted by a snapshot that moves the selected container to another
\* row): when the container selected before a snapshot is in the new list,
\* the container selected after it has the same id.
C30_SelectionKeepsId ==
    (arg.fn = "snapshot" /\ ret # NoRet /\ arg.containers # <<>>
        /\ arg.containers[arg.selected_index + 1].id \in Ids(ret.containers))
        => ret.containers[ret.selected_index + 1].id
               = arg.containers[arg.selected_index + 1].id

\* ---------------------------------------------------------------------
\* Claims about the Engine Client's control calls
\* ---------------------------------------------------------------------
SuccessStatus(status) == status[1] = "2"
ErrorStatus(status) == status[1] \in {"4", "5"}

\* C38 (refuted by any error response that is a complete HTTP message):
\* start_container, stop_container and restart_container return success
\* only for a response with a success status, and return an error for a
\* response with a 4xx or 5xx status, with or without a body.
C38_ErrorStatusIsError ==
    (arg.fn = "control" /\ ret # NoRet) =>
        /\ ret.ok => SuccessStatus(arg.status)
        /\ ErrorStatus(arg.status) => ~ret.ok

\* what holds instead: the result is an error only for a response that has
\* no header/body delimiter (and is not an HTTP/1.1 200, 204 or 304)
ControlErrorOnlyWithoutDelimiter ==
    (arg.fn = "control" /\ ret # NoRet /\ ~ret.ok) => arg.rest = <<>>

\* ---------------------------------------------------------------------
\* Claims about the Replace command's outcome
\* ---------------------------------------------------------------------
OldRemoved == HasCall({"replace_remove"}, {"ok"})
NewCreated == HasCall({"replace_create"}, {"ok"})

\* C36 (refuted by a failed create): when the final result of a Replace
\* command is emitted and the old container has been removed, a new
\* container has been created.
C36_ReplaceNeverLosesContainer ==
    (wpc = "final" /\ cur.kind = "Replace" /\ OldRemoved) => NewCreated

\* what holds instead: a Replace command that removed the old container
\* and created none ends with the result "Failed to create"
ReplaceLossIsReported ==
    (wpc = "final" /\ cur.kind = "Replace" /\ OldRemoved /\ ~NewCreated)
        => wres = "Failed to create"

\* ---------------------------------------------------------------------
\* Claims about what the dashboard shows after a navigation key
\* ---------------------------------------------------------------------
\* a sample or an inspection, if there is one, is of the focus target
OfFocus(sample) == sample # None => sample = focus.val

\* C33 (refuted by a pair that is fetched, or waits on the channel, while
\* the operator moves on): the stats on display, the previous sample and
\* the inspection on display were fetched for the container that is the
\* focus target.
C33_DetailsAreOfFocus ==
    /\ OfFocus(app.current_stats)
    /\ OfFocus(app.previous_stats)
    /\ OfFocus(app.current_inspection)

\* what holds instead: a navigation key leaves nothing on display
NavClearsDetails ==
    [][(focus'.ver # focus.ver /\ focus.val # None) =>
          /\ app'.current_stats = None
          /\ app'.previous_stats = None
          /\ app'.current_inspection = None]_vars

\* C34 (refuted by a line that waits on the log channel, or is sent by the
\* subtask of the container left, when the operator moves on): every line
\* of a log stream that is in the log buffer was read from the stream of
\* the container that is the focus target.
C34_LogLinesAreOfFocus ==
    \A i \in 1..Len(app.logs) :
        app.logs[i].src = "log" => app.logs[i].container = focus.val

\* what holds instead: a navigation key leaves the log buffer empty
NavClearsLogs ==
    [][(focus'.ver # focus.ver /\ focus.val # None) => app'.logs = <<>>]_vars

\* ---------------------------------------------------------------------
\* Claims about the selection and the focus
\* ---------------------------------------------------------------------
\* C35 (refuted by a snapshot that puts another container in the selected
\* row): between two iterations of the Dashboard Loop, a Focus Register
\* that holds an id, with a non-empty list, holds the id of the container
\* at the selected index.
C35_FocusIsSelected ==
    (focus.val # None /\ appContainers # <<>>) =>
        /\ selected_index < Len(appContainers)
        /\ appContainers[selected_index + 1] = focus.val

\* what holds instead: a navigation key writes the id of the container at
\* the selected index to the Focus Register
NavWritesSelection ==
    [][(focus'.ver # focus.ver /\ focus.val # None) =>
          /\ selected_index' < Len(appContainers')
          /\ focus'.val = appContainers'[selected_index' + 1]]_vars

\* C39: with a non-empty container list the selected index is smaller than
\* the length of the list, after every snapshot taken in and after every
\* navigation key.
C39_SelectionInList ==
    appContainers # <<>> => selected_index < Len(appContainers)

\* the operator had moved to the last row, Y, and a snapshot without Y
\* pulled the selection back to the row of X
C39_Witness ==
    /\ appContainers = <<"X">> /\ selected_index = 0
    /\ focus.val = "Y"

\* ---------------------------------------------------------------------
\* Claims about the Log Task's reaction to the Focus Register
\* ---------------------------------------------------------------------
\* the Log Task takes a change notification of the register
Notified == logSeen' # logSeen

\* the subtask that was running is cancelled
RunningCancelled ==
    current_log_task # 0 =>
        \/ subs'[current_log_task].pc = "done"
        \/ subs'[current_log_task].cancelled

\* a new subtask is spawned that opens the stream of the target
TargetSpawned ==
    focus.val # None =>
        /\ Len(subs') = Len(subs) + 1
        /\ current_log_task' = Len(subs')
        /\ subs'[Len(subs')].target = focus.val
        /\ subs'[Len(subs')].pc = "open"

\* C31 (refuted by a notification that re-sends the id being streamed): at
\* every change notification the Log Task cancels the running subtask, if
\* any, and, when the target is set, spawns a subtask that opens the log
\* stream of the target.
C31_EveryChangeRestarts ==
    [][Notified => (RunningCancelled /\ TargetSpawned)]_vars

\* what holds instead: the same at every notification whose id differs
\* from the id of the last notification acted upon
ChangedIdRestarts ==
    [][(Notified /\ focus.val # last_id) =>
          (RunningCancelled /\ TargetSpawned)]_vars

\* and a notification that re-sends the id leaves the subtasks alone
SameIdIsIgnored ==
    [][(Notified /\ focus.val = last_id) =>
          UNCHANGED <<subs, current_log_task>>]_vars

\* ---------------------------------------------------------------------
\* The wizard (main.rs:648-675; app.rs:764-1487, App::wizard_handle_key)
\* ---------------------------------------------------------------------
\* app.rs:108-150  the steps of the wizard that the Janitor goes through;
\* list_state is the row of the cursor
Janitor(items, list_state, loading) ==
    [step |-> "Janitor", items |-> items, list_state |-> list_state,
     loading |-> loading]

Step(name) == [step |-> name]

\* what wizard_handle_key leaves: the wizard, and the WizardAction returned
NoAction == [kind |-> "none"]
Handled(wizard, action) == [wizard |-> wizard, action |-> action]

ToClean_All(items) == items

\* app.rs:1269  items.iter().filter(|i| i.selected).cloned().collect()
ToClean(items) == SelectSeq(items, LAMBDA i : i.selected)

\* app.rs:773-830  the keys of the mode selection; row 3 is the Janitor
ModeSelectionKey(w, key) ==
    CASE key = "Up" ->
            Handled(ModeSelection(IF w.selected_index > 0
                                  THEN w.selected_index - 1 ELSE 4), NoAction)
      [] key = "Down" ->
            Handled(ModeSelection((w.selected_index + 1) % 5), NoAction)
      [] key = "Enter" ->
            IF w.selected_index = 0
            THEN Handled(Step("QuickRunInput"), NoAction)
            ELSE IF w.selected_index = 3
            THEN Handled(Janitor(<<>>, 0, TRUE),
                         [kind |-> "ScanJanitor", items |-> <<>>])
            ELSE IF w.selected_index = 4
            THEN Handled(Step("Settings"), NoAction)
            ELSE Handled(Step("FileBrowser"), NoAction)
      [] OTHER -> Handled(w, NoAction)

\* app.rs:1244-1282  the keys of the Janitor step, dead while it is loading.
\* Down computes items.len() - 1 on a usize: with an empty list a build
\* with overflow checks panics and a build without them wraps.
JanitorKey(w, key, build) ==
    LET i == w.list_state
        len == Len(w.items)
    IN  IF w.loading THEN Handled(w, NoAction)
        ELSE CASE key = "Up" ->
                    Handled([w EXCEPT !.list_state = IF i = 0 THEN 0 ELSE i - 1],
                            NoAction)
               [] key = "Down" ->
                    IF len = 0
                    THEN IF build = "debug" THEN Panic
                         ELSE Handled([w EXCEPT !.list_state = i + 1], NoAction)
                    ELSE Handled([w EXCEPT !.list_state =
                                     IF i >= len - 1 THEN len - 1 ELSE i + 1],
                                 NoAction)
               [] key = " " ->
                    IF i < len
                    THEN Handled([w EXCEPT !.items[i + 1].selected = ~@],
                                 NoAction)
                    ELSE Handled(w, NoAction)
               [] key = "Enter" ->
                    LET to_clean == ToClean(w.items)
                    IN  IF to_clean # <<>>
                        THEN Handled(Step("Processing"),
                                     [kind |-> "CleanJanitor",
                                      items |-> to_clean])
                        ELSE Handled(w, NoAction)
               [] OTHER -> Handled(w, NoAction)

\* the steps whose keys are left out change nothing here
wizard_handle_key(w, key, build) ==
    CASE w.step = "ModeSelection" -> ModeSelectionKey(w, key)
      [] w.step = "Janitor" -> JanitorKey(w, key, build)
      [] OTHER -> Handled(w, NoAction)

\* main.rs:648-657  c or Tab opens the wizard, Esc closes it
DashToggleWizard ==
    /\ dashPc = "idle"
    /\ \E key \in {"c", "Esc"} :
        /\ (key = "c") = (app.wizard = NoWizard)
        /\ app' = [app EXCEPT !.wizard = toggle_wizard(@)]
    /\ UNCHANGED <<appContainers, selected_index, focus>>
    /\ UNCHANGED <<chanVars, discVars, evVars, workerVars, dashVars, logVars>>
    /\ UNCHANGED <<detVars, fnVars>>

WizardKeys == {"Up", "Down", "Enter", " "}

\* main.rs:658-675  another key with the wizard open: wizard_handle_key, and
\* the action it returns is sent to the Action Executor
DashWizardKey ==
    /\ dashPc = "idle"
    /\ app.wizard # NoWizard
    /\ \E key \in WizardKeys, build \in Builds :
        LET h == wizard_handle_key(app.wizard, key, build) IN
        IF h = Panic
        THEN /\ dashPc' = "panicked"
             /\ UNCHANGED <<app, actionQ, pending, issued>>
        ELSE /\ app' = [app EXCEPT !.wizard = h.wizard]
             /\ IF h.action = NoAction
                THEN UNCHANGED <<dashPc, actionQ, pending, issued>>
                ELSE /\ issued < operator.budget
                     /\ issued' = issued + 1
                     /\ LET c == [idx |-> issued + 1, kind |-> h.action.kind,
                                  items |-> h.action.items,
                                  override |-> FALSE]
                        IN  IF Len(actionQ) < ActionCap
                            THEN /\ actionQ' = Append(actionQ, c)
                                 /\ UNCHANGED <<dashPc, pending>>
                            ELSE /\ dashPc' = "blocked"
                                 /\ pending' = c
                                 /\ UNCHANGED actionQ
    /\ UNCHANGED operator
    /\ UNCHANGED <<appContainers, selected_index, focus>>
    /\ UNCHANGED <<containersQ, logQ, resultQ, janitorQ, refreshQ>>
    /\ UNCHANGED <<discVars, evVars, workerVars, logVars, detVars, fnVars>>

\* the Janitor: an operator who goes through the wizard, the worker's scan
\* and cleanup, and the tick; the daemon has one image, one volume and one
\* container to report and its list calls succeed
\* commands the operator submits through the wizard
MaxWizardCmds == 3

InitJanitor ==
    /\ InitCommon
    /\ discPc = "select" /\ listed = TRUE
    /\ operator = [Bystander EXCEPT !.budget = MaxWizardCmds,
                                    !.found = {1}, !.faulty = FALSE,
                                    !.trace = TRUE]

NextJanitor ==
    \/ DashToggleWizard \/ DashWizardKey \/ DashTick
    \/ WorkerRecv \/ WorkerProgress \/ WorkerCall \/ WorkerPublish
    \/ WorkerClean \/ WorkerFinal

SpecJanitor == InitJanitor /\ [][NextJanitor]_vars

\* ---------------------------------------------------------------------
\* C32: the scan and the wizard that asked for it
\* ---------------------------------------------------------------------
\* the tick takes a message of the command the wizard's Janitor step sent
TickTakesScanMessage ==
    /\ app.wizard.step = "Janitor"
    /\ resultQ # <<>> /\ resultQ' = Tail(resultQ)
    /\ Head(resultQ).cmd = issued

\* C32: while the wizard is on the Janitor step and its ScanJanitor command
\* is being processed, no message of that command makes the tick close the
\* wizard: after the tick the wizard is still on the Janitor step
C32_ScanKeepsWizardOpen ==
    [][TickTakesScanMessage => app'.wizard.step = "Janitor"]_vars

\* what does hold: the scan's final message leaves the wizard alone, every
\* other message of the scan closes it
ScanCompleteKeepsWizard ==
    [][(TickTakesScanMessage /\ Head(resultQ).text = "Scan Complete")
        => app'.wizard.step = "Janitor"]_vars

ScanProgressClosesWizard ==
    [][(TickTakesScanMessage /\ Head(resultQ).text # "Scan Complete")
        => app'.wizard = NoWizard]_vars

\* a wizard that is on the Janitor step after a tick has taken the last of
\* the item lists that were waiting, and is not loading
JanitorStepTakesItems ==
    [][(janitorQ # <<>> /\ janitorQ' = <<>> /\ app'.wizard.step = "Janitor")
        => /\ app'.wizard.items = janitorQ[Len(janitorQ)].items
           /\ ~app'.wizard.loading]_vars

\* ---------------------------------------------------------------------
\* C37: what the cleanup deletes
\* ---------------------------------------------------------------------
\* the command the Dashboard Loop has just handed to the channel
Submitted ==
    IF dashPc' = "blocked" THEN pending' ELSE actionQ'[Len(actionQ')]

\* the operator confirms the cleanup: the command carries the items that
\* have their check mark at that moment, all of them and no other
ConfirmSendsSelected ==
    (app.wizard.step = "Janitor" /\ app'.wizard.step = "Processing")
    => /\ Submitted.kind = "CleanJanitor"
       /\ \A i \in 1..Len(Submitted.items) : Submitted.items[i].selected
       /\ {Submitted.items[i].id : i \in 1..Len(Submitted.items)}
            = {app.wizard.items[i].id :
                 i \in {j \in 1..Len(app.wizard.items) :
                           app.wizard.items[j].selected}}

\* the delete calls of a cleanup are made for the items of its command, one
\* each, and each of them had its check mark
CleanDeletesSelected ==
    cur.kind = "CleanJanitor"
    => /\ Len(calls) <= Len(cur.items)
       /\ wpc = "final" => Len(calls) = Len(cur.items)
       /\ \A i \in 1..Len(calls) :
            /\ calls[i].id = cur.items[i].id
            /\ cur.items[i].selected

\* C37: no janitor item without its check mark at confirmation is passed
\* to a delete call; the items a CleanJanitor command deletes are exactly
\* the items selected at confirmation
C37_OnlySelectedDeleted ==
    /\ [][ConfirmSendsSelected]_vars
    /\ [](CleanDeletesSelected)

\* a cleanup is through with a scan of three items of which the operator
\* left the second without its check mark
C37_Witness ==
    /\ wpc = "final" /\ cur.kind = "CleanJanitor"
    /\ Len(calls) = 2
    /\ calls[1].id = 1 /\ calls[2].id = 3

====
